---- MODULE Spec2Model ----
(***************************************************************************)
(* Model of the media-recommender recommendation pipeline:                 *)
(*   - the cache wrappers of src/lib/redis.ts,                             *)
(*   - the per-seed recommendation route (api/recommendations/route.ts),   *)
(*   - the multi-seed client merge (app/components/MediaRecommender.tsx),  *)
(*   - RecommendationEngine.rankAndDeduplicate (unnamed/part_000),         *)
(*   - the two calculateSimilarity scorers (route.ts and unnamed/part_002),*)
(*   - the rate-limit retry of fetchTMDBData.                              *)
(*                                                                         *)
(* Numbers.  JavaScript numbers are modelled as integers in units of       *)
(* 1/SCALE (fixed point, divisions round down).  NaN and the JSON null a   *)
(* NaN serialises to are two reserved values outside the score range.      *)
(***************************************************************************)
EXTENDS Integers, Sequences, FiniteSets, TLC

VARIABLES
    tmdb,        \* the provider's current answers, per identity <<type, id>>
    cache,       \* the redis store: key -> [val, exp]
    redisUp,     \* whether the redis backend answers (FALSE: every command throws)
    now,         \* wall clock, in seconds
    response,    \* the last response of the recommendation route
    request,     \* the last request of the recommendation route
    callLog,     \* every call of the route so far: request, time, answer
    favorites,   \* the client's favourites list
    seedResponses, \* the client's per-favourite route responses
    merged,      \* the client's merged list (unfilteredRecommendations)
    clientError, \* the client's error banner
    engineOut,   \* the last result of RecommendationEngine.rankAndDeduplicate
    calls,       \* number of handler invocations so far
    changes,     \* number of provider changes so far
    ticks,       \* number of clock advances so far
    scoreSeed,   \* the seed item handed to the scorers
    scoreOut,    \* the last scorer call: function, candidate, source, score
    fetcher,     \* the fetch function under way
    fetchArgs,   \* the type and id the fetch was called with
    script,      \* the responses the provider gives to its requests, in order
    fetchPc,     \* where the fetch is: "ready", "sleeping", "done"
    sent,        \* the time of each request issued so far
    clock,       \* seconds since the fetch was called
    wakeAt,      \* when the pending retry timer fires
    outcome,     \* how and when the fetch ended
    kvOut,       \* the last cache wrapper call and what it returned
    kvSet,       \* for each key, the last setCachedData not yet invalidated
    chainDb,     \* the chained route's provider: each id's two lists
    chainOut,    \* the last call of the chained route and what it did
    scoredRecs,  \* the scored candidates one route call ranks
    rankOut,     \* what the route returned for them and what the client shows
    text,        \* the text handed to analyzePatterns: words and the gaps after them
    patternsOut, \* the results of the calls of analyzePatterns on the text
    batch,       \* the route call whose candidate tasks run: seed, details, first store
    tasks,       \* the candidate tasks handed to Promise.all, in list order
    settled,     \* the indices of the fulfilled tasks, in completion order
    batchOut     \* the response of that call

envVars == <<tmdb, redisUp, now, changes, ticks>>

routeVars == <<cache, response, request, callLog, calls>>

clientVars == <<favorites, seedResponses, merged, clientError, engineOut>>

scoreVars == <<scoreSeed, scoreOut>>

fetchVars == <<fetcher, fetchArgs, script, fetchPc, sent, clock, wakeAt, outcome>>

kvVars == <<kvOut, kvSet>>

chainVars == <<chainDb, chainOut>>
rankVars == <<scoredRecs, rankOut>>
patternVars == <<text, patternsOut>>
concVars == <<batch, tasks, settled, batchOut>>

vars == <<envVars, routeVars, clientVars, scoreVars, fetchVars, kvVars, chainVars, rankVars, patternVars, concVars>>

----------------------------------------------------------------------------
(* Bounds of the model *)

MaxCalls == 2

MaxChanges == 1

MaxTicks == 1

MaxFavorites == 2

MaxClientCalls == 1

----------------------------------------------------------------------------
(* Numbers *)

SCALE == 10 * 1000

NaN == 0 - (SCALE * SCALE)

JSNull == NaN - 1

Min(a, b) == IF a < b THEN a ELSE b

Max(a, b) == IF a > b THEN a ELSE b

\* n / d as JavaScript computes it for 0 <= n <= d: 0/0 is NaN
Ratio(n, d) == IF d = 0 THEN NaN ELSE (n * SCALE) \div d

\* x * w for a weight w, NaN-propagating
Times(x, w) == IF x = NaN THEN NaN ELSE (x * w) \div SCALE

\* a + b, NaN-propagating
Plus(a, b) == IF a = NaN \/ b = NaN THEN NaN ELSE a + b

\* Math.min(Math.max(x, 0), 1): both return NaN for a NaN argument
Clamp01(x) == IF x = NaN THEN NaN ELSE Min(Max(x, 0), SCALE)

\* JSON.stringify writes NaN as null (NextResponse.json)
ToJSON(x) == IF x = NaN THEN JSNull ELSE x

\* ToNumber of a value read from JSON: null is 0 in arithmetic
Num(x) == IF x = JSNull THEN 0 ELSE x

----------------------------------------------------------------------------
(* Scoring weights of the recommendation route *)

W_directRecommendation == (60 * SCALE) \div 100

\* the weight of the similar list were it a quarter
W_similarQuarter == (25 * SCALE) \div 100

W_similar == (20 * SCALE) \div 100

W_genreMatch == (10 * SCALE) \div 100

W_thematicPattern == (5 * SCALE) \div 100

W_voteAverage == (3 * SCALE) \div 100

W_popularity == (1 * SCALE) \div 100

W_yearProximity == (1 * SCALE) \div 100

\* Object.values(SCORING_WEIGHTS).reduce((a, b) => a + b, 0)
TOTAL_WEIGHT ==
    W_directRecommendation + W_similar + W_genreMatch + W_thematicPattern
    + W_voteAverage + W_popularity + W_yearProximity

\* the start-up check: Math.abs(TOTAL_WEIGHT - 1) > 0.001 logs a warning
WeightsWarning ==
    (IF TOTAL_WEIGHT >= SCALE THEN TOTAL_WEIGHT - SCALE ELSE SCALE - TOTAL_WEIGHT)
        > SCALE \div 1000

\* new Date(0).getFullYear(): the year a missing date is read as (UTC host)
EpochYear == 1960 + 10

\* new Date(item.first_air_date || item.release_date || 0).getFullYear();
\* year = 0 stands for an absent or empty date string
YearOf(item) == IF item.year = 0 THEN EpochYear ELSE item.year

AbsDiff(a, b) == IF a >= b THEN a - b ELSE b - a

\* the Bayesian-shrunk rating of route.ts: minVotes = 1000, meanRating = 7.0
WeightedRating(item2) ==
    (item2.vc * item2.va10 * (SCALE \div 100) + 1000 * 7 * SCALE)
        \div (item2.vc + 1000)

PopularityScore(item2) ==
    LET a == Min((item2.vc * SCALE) \div 1000, SCALE)
        b == SCALE - Min((item2.pop * SCALE) \div 1000, SCALE \div 2)
    IN  (((a * WeightedRating(item2)) \div SCALE) * b) \div SCALE

GenreScore(item1, item2) ==
    Ratio(Cardinality(item1.genres \cap item2.genres),
          Max(Cardinality(item1.genres), Cardinality(item2.genres)))

\* item2.patterns?.length || 1 in the denominator
PatternScore(item1, item2) ==
    Ratio(Cardinality(item1.patterns \cap item2.patterns),
          Max(Cardinality(item1.patterns),
              IF Cardinality(item2.patterns) = 0 THEN 1
              ELSE Cardinality(item2.patterns)))

YearScore(item1, item2) ==
    Max(0, SCALE - (AbsDiff(YearOf(item1), YearOf(item2)) * SCALE) \div 10)

\* totalScore of calculateSimilarity (route.ts), before the clamp
TotalScore(item1, item2, source) ==
    LET s0 == IF source = "direct" THEN W_directRecommendation ELSE W_similar
        s1 == IF item1.hasGenres /\ item2.hasGenres
              THEN Plus(s0, Times(GenreScore(item1, item2), W_genreMatch))
              ELSE s0
        s2 == IF item1.hasPatterns /\ item2.hasPatterns
              THEN Plus(s1, Times(PatternScore(item1, item2), W_thematicPattern))
              ELSE s1
        s3 == IF item2.va10 # 0 /\ item2.vc # 0
              THEN Plus(s2, Times(WeightedRating(item2), W_voteAverage))
              ELSE s2
        s4 == IF item2.va10 # 0 /\ item2.vc # 0 /\ item2.pop # 0
              THEN Plus(s3, Times(PopularityScore(item2), W_popularity))
              ELSE s3
        s5 == IF YearOf(item1) # 0 /\ YearOf(item2) # 0
              THEN Plus(s4, Times(YearScore(item1, item2), W_yearProximity))
              ELSE s4
    IN  s5

\* calculateSimilarity(item1, item2, source).score of route.ts
calculateSimilarity(item1, item2, source) ==
    Clamp01(TotalScore(item1, item2, source))

----------------------------------------------------------------------------
(* calculateSimilarity of the chained route (unnamed/part_002) *)

\* a / b on scaled numbers, b > 0
Over(a, b) == IF a = NaN THEN NaN ELSE (a * SCALE) \div b

ChainPatternScore(item1, item2) ==
    Ratio(Cardinality(item1.patterns \cap item2.patterns),
          Max(Cardinality(item1.patterns), Cardinality(item2.patterns)))

ChainKeywordScore(item1, item2) ==
    Ratio(Cardinality(item1.keywords \cap item2.keywords),
          Max(1, Min(Cardinality(item1.keywords), 20)))

ChainYearScore(item1, item2) ==
    SCALE - Min((AbsDiff(YearOf(item1), YearOf(item2)) * SCALE) \div 20, SCALE)

ChainRatingScore(item1, item2) ==
    SCALE - (AbsDiff(item1.va10, item2.va10) * SCALE) \div 100

\* popularityFactor: min(vote_count / 1000, 1) * (vote_average / 10)
\*                   * (1 - min(popularity / 1000, 0.9))
ChainPopularityFactor(item2) ==
    LET a == Min((item2.vc * SCALE) \div 1000, SCALE)
        q == (item2.va10 * SCALE) \div 100
        b == SCALE - Min((item2.pop * SCALE) \div 1000, (9 * SCALE) \div 10)
    IN  (((a * q) \div SCALE) * b) \div SCALE

\* the weighted sum and the sum of the weights applied
ChainSum(item1, item2) ==
    LET p == IF item1.hasPatterns /\ item2.hasPatterns
             THEN [s |-> Times(ChainPatternScore(item1, item2), (40 * SCALE) \div 100),
                   w |-> 40]
             ELSE [s |-> 0, w |-> 0]
        g == IF item1.hasGenres /\ item2.hasGenres
             THEN [s |-> Plus(p.s, Times(GenreScore(item1, item2), (20 * SCALE) \div 100)),
                   w |-> p.w + 20]
             ELSE p
        k == IF item1.hasKeywords /\ item2.hasKeywords
             THEN [s |-> Plus(g.s, Times(ChainKeywordScore(item1, item2), (15 * SCALE) \div 100)),
                   w |-> g.w + 15]
             ELSE g
        y == IF YearOf(item1) # 0 /\ YearOf(item2) # 0
             THEN [s |-> Plus(k.s, Times(ChainYearScore(item1, item2), (15 * SCALE) \div 100)),
                   w |-> k.w + 15]
             ELSE k
        r == IF item1.va10 # 0 /\ item2.va10 # 0
             THEN [s |-> Plus(y.s, Times(ChainRatingScore(item1, item2), (10 * SCALE) \div 100)),
                   w |-> y.w + 10]
             ELSE y
    IN  r

\* score * (0.8 + popularityFactor * 0.2) when the candidate has votes and popularity
ChainAdjusted(item2, score) ==
    IF item2.vc # 0 /\ item2.pop # 0
    THEN Times(score, (8 * SCALE) \div 10 + (ChainPopularityFactor(item2) * 2) \div 10)
    ELSE score

\* calculateSimilarity(item1, item2).score of unnamed/part_002
calculateSimilarityChain(item1, item2) ==
    IF ChainSum(item1, item2).w > 0
    THEN Over(ChainAdjusted(item2, ChainSum(item1, item2).s),
              (ChainSum(item1, item2).w * SCALE) \div 100)
    ELSE 0

----------------------------------------------------------------------------
(* The metadata provider (TMDB), as the route sees it *)

MediaTypes == {"movie", "tv"}

Ids == 1 .. 3

Identities == MediaTypes \X Ids

Null == [kind |-> "null"]

Thrown == [kind |-> "throw"]

\* baseDetails of fetchMediaDetails: the route never sets patterns
BaseDetails(type, id, e, recs, similar) ==
    [kind |-> "media", id |-> id, media_type |-> type,
     hasGenres |-> TRUE, genres |-> e.genres,
     hasPatterns |-> FALSE, patterns |-> {},
     va10 |-> e.va10, vc |-> e.vc, pop |-> e.pop, year |-> e.year,
     recs |-> recs, similar |-> similar]

\* fetchMediaDetails(type, id) against the provider answers db: a thrown error
\* for a bad type or a non-ok details response; a list request answered non-ok
\* leaves that list empty (tv: two requests; movie: one combined request); a
\* list request whose fetch rejects (a network fault) is thrown on by the catch
fetchMediaDetails(db, type, id) ==
    IF type \notin MediaTypes THEN Thrown
    ELSE LET e == db[<<type, id>>] IN
         IF e.status # 200 THEN Thrown
         ELSE IF e.recsFault \/ (type = "tv" /\ e.simFault) THEN Thrown
         ELSE IF type = "tv"
              THEN BaseDetails(type, id, e,
                               IF e.recsOk THEN e.recs ELSE <<>>,
                               IF e.simOk THEN e.similar ELSE <<>>)
              ELSE BaseDetails(type, id, e,
                               IF e.recsOk THEN e.recs ELSE <<>>,
                               IF e.recsOk THEN e.similar ELSE <<>>)

\* fetchContentRating(type, id): never throws, '' when no US rating is found
fetchContentRating(db, type, id) ==
    IF db[<<type, id>>].status = 200 THEN db[<<type, id>>].cert ELSE ""

----------------------------------------------------------------------------
(* The cache wrappers of src/lib/redis.ts *)

CACHE_TTL == 24 * 60 * 60

MEDIA_CACHE_TTL == 7 * 24 * 60 * 60

RECOMMENDATIONS_CACHE_TTL == 24 * 60 * 60

\* parts.join(':')
generateCacheKey(class, type, id) == class \o ":" \o type \o ":" \o ToString(id)

\* JavaScript truthiness of a JSON value
Truthy(v) ==
    ~ \/ v.kind = "null"
      \/ (v.kind = "number" /\ v.n = 0)
      \/ (v.kind = "string" /\ v.s = "")
      \/ (v.kind = "boolean" /\ ~v.b)

\* redis.get(key): nil once the key's expiry has passed
RedisGet(c, t, key) ==
    IF key \in DOMAIN c /\ t < c[key].exp THEN c[key].val ELSE Null

\* redis.set(key, data, {ex: ttl})
RedisSet(c, t, key, data, ttl) ==
    (key :> [val |-> data, exp |-> t + ttl]) @@ c

\* redis.del(key)
RedisDel(c, key) == [k \in DOMAIN c \ {key} |-> c[k]]

\* a read wrapper that answers from the store whether or not the backend is up
getCachedDataIgnoringOutage(c, up, t, key) ==
    IF Truthy(RedisGet(c, t, key)) THEN RedisGet(c, t, key) ELSE Null

\* getCachedData(key): the cached value, null on a miss, a falsy value or an error
getCachedData(c, up, t, key) ==
    IF ~up THEN Null
    ELSE IF Truthy(RedisGet(c, t, key)) THEN RedisGet(c, t, key) ELSE Null

\* a write wrapper that always uses its default expiry, CACHE_TTL
setCachedDataDefaultTTL(c, up, t, key, data, ttl) ==
    IF ~up THEN c ELSE RedisSet(c, t, key, data, CACHE_TTL)

\* setCachedData(key, data, ttl): the store after the call (unchanged on an error)
setCachedData(c, up, t, key, data, ttl) ==
    IF ~up THEN c ELSE RedisSet(c, t, key, data, ttl)

\* invalidateCache(key): the store after the call (unchanged on an error)
invalidateCache(c, up, key) ==
    IF ~up THEN c ELSE RedisDel(c, key)

----------------------------------------------------------------------------
(* The recommendation route: GET /api/recommendations *)

NoId == 0

NoType == ""

\* the list cap of .slice(0, 20)
ResultCap == 20

\* allRecommendations: the direct list, then the similar list, each tagged
AllRecommendations(md) ==
    [i \in 1 .. Len(md.recs) |-> [id |-> md.recs[i], source |-> "direct"]]
    \o [i \in 1 .. Len(md.similar) |-> [id |-> md.similar[i], source |-> "similar"]]

\* recDetails of one candidate: the cached entry (skipCache is not consulted),
\* else the fetched details, else the thrown error
RecDetails(c, up, t, db, type, rid) ==
    IF getCachedData(c, up, t, generateCacheKey("media", type, rid)) # Null
    THEN getCachedData(c, up, t, generateCacheKey("media", type, rid))
    ELSE fetchMediaDetails(db, type, rid)

\* the store after every candidate task has run: each miss that was fetched
\* successfully is written under the metadata TTL.  Sibling tasks of a failed
\* one are not cancelled by Promise.all and still write.
RECURSIVE CacheAfterCandidates(_, _, _, _, _, _)
CacheAfterCandidates(c, up, t, db, type, recs) ==
    IF recs = <<>> THEN c
    ELSE LET key == generateCacheKey("media", type, Head(recs).id)
             miss == getCachedData(c, up, t, key) = Null
             got == fetchMediaDetails(db, type, Head(recs).id)
         IN  CacheAfterCandidates(
                 IF miss /\ got # Thrown
                 THEN setCachedData(c, up, t, key, got, MEDIA_CACHE_TTL)
                 ELSE c,
                 up, t, db, type, Tail(recs))

\* the RecommendationResult built for one candidate
ScoredRec(md, rec, details, cert) ==
    [id |-> rec.id, media_type |-> md.media_type, source |-> rec.source,
     score |-> calculateSimilarity(md, details, rec.source), cert |-> cert]

\* index of the first element of acc with this id, 0 when there is none
IndexOfId(acc, id) ==
    IF \E i \in 1 .. Len(acc) : acc[i].id = id
    THEN CHOOSE i \in 1 .. Len(acc) :
             acc[i].id = id /\ \A j \in 1 .. i - 1 : acc[j].id # id
    ELSE 0

\* acc.filter(item => item.id !== id)
RECURSIVE RemoveId(_, _)
RemoveId(acc, id) ==
    IF acc = <<>> THEN <<>>
    ELSE IF Head(acc).id = id THEN RemoveId(Tail(acc), id)
         ELSE <<Head(acc)>> \o RemoveId(Tail(acc), id)

\* a < b on JavaScript numbers: false when either is NaN
JSLess(a, b) == a # NaN /\ b # NaN /\ a < b

\* a dedup step that lets every later occurrence replace the earlier one
DedupStepKeepLast(acc, curr) == Append(RemoveId(acc, curr.id), curr)

\* a dedup step that never looks for an existing element
DedupStepKeepBoth(acc, curr) == Append(acc, curr)

\* a dedup step that averages the two scores of a repeated id
DedupStepAverage(acc, curr) ==
    IF IndexOfId(acc, curr.id) = 0 THEN Append(acc, curr)
    ELSE [acc EXCEPT ![IndexOfId(acc, curr.id)] =
             [@ EXCEPT !.score = IF @ = NaN \/ curr.score = NaN THEN NaN
                                ELSE (@ + curr.score) \div 2]]

\* one step of the route's dedup reduce: keep the strictly higher score
DedupStep(acc, curr) ==
    IF IndexOfId(acc, curr.id) = 0 THEN Append(acc, curr)
    ELSE IF JSLess(acc[IndexOfId(acc, curr.id)].score, curr.score)
         THEN Append(RemoveId(acc, curr.id), curr)
         ELSE acc

RECURSIVE DedupReduce(_, _)
DedupReduce(acc, rest) ==
    IF rest = <<>> THEN acc
    ELSE DedupReduce(DedupStep(acc, Head(rest)), Tail(rest))

\* the client's sort key 0.7 * thematicSimilarity + 0.3 * count / n, times 10 n
ClientKey(e, n) == 7 * Num(e.score) * n + 3 * e.count * SCALE

\* comparators with the operands swapped: an ascending sort
CmpAscending(kind, a, b, n) ==
    CASE kind = "route" ->
           IF a.score = NaN \/ b.score = NaN THEN 0 ELSE a.score - b.score
      [] kind = "client" -> ClientKey(a, n) - ClientKey(b, n)
      [] kind = "engine" ->
           IF b.score # a.score THEN Num(a.score) - Num(b.score)
           ELSE a.frequency - b.frequency

\* the comparators handed to Array.prototype.sort; a NaN result counts as 0
Cmp(kind, a, b, n) ==
    CASE kind = "route" ->
           IF a.score = NaN \/ b.score = NaN THEN 0 ELSE b.score - a.score
      [] kind = "client" -> ClientKey(b, n) - ClientKey(a, n)
      [] kind = "engine" ->
           IF b.score # a.score THEN Num(b.score) - Num(a.score)
           ELSE b.frequency - a.frequency

\* Array.prototype.sort: stable insertion by the comparator
RECURSIVE InsertPos(_, _, _, _, _)
InsertPos(kind, acc, x, n, j) ==
    IF j = 0 THEN 0
    ELSE IF Cmp(kind, acc[j], x, n) <= 0 THEN j
         ELSE InsertPos(kind, acc, x, n, j - 1)

Insert(kind, acc, x, n) ==
    SubSeq(acc, 1, InsertPos(kind, acc, x, n, Len(acc))) \o <<x>>
    \o SubSeq(acc, InsertPos(kind, acc, x, n, Len(acc)) + 1, Len(acc))

RECURSIVE SortFrom(_, _, _, _)
SortFrom(kind, acc, rest, n) ==
    IF rest = <<>> THEN acc
    ELSE SortFrom(kind, Insert(kind, acc, Head(rest), n), Tail(rest), n)

Sort(kind, s, n) == SortFrom(kind, <<>>, s, n)

\* .slice(0, k)
Slice(s, k) == SubSeq(s, 1, Min(Len(s), k))

\* a result list as JSON carries it
JSONResults(rs) == [i \in 1 .. Len(rs) |-> [rs[i] EXCEPT !.score = ToJSON(@)]]

Resp(status, results, cached) ==
    [kind |-> "response", status |-> status, results |-> results,
     cached |-> cached]

\* sortedRecommendations of the route: null-filter, dedup, sort, cap
SortedRecommendations(scored) ==
    Slice(Sort("route", DedupReduce(<<>>, scored), 1), ResultCap)

\* the sourceMetadata of a response that carries none (an error response)
NoMetadata == [genres |-> "none"]

\* The handler GET: its response, its sourceMetadata and the store it leaves
GET(c, up, t, db, type, id, skipCache) ==
    IF id = NoId \/ type = NoType
    THEN [resp |-> Resp(400, <<>>, FALSE), cache |-> c, meta |-> NoMetadata]
    ELSE
    LET recKey == generateCacheKey("recommendations", type, id)
        mediaKey == generateCacheKey("media", type, id)
        cachedRecs == IF skipCache THEN Null ELSE getCachedData(c, up, t, recKey)
        cachedMedia == IF skipCache THEN Null
                       ELSE getCachedData(c, up, t, mediaKey)
        md == IF cachedMedia = Null THEN fetchMediaDetails(db, type, id)
              ELSE cachedMedia
        c1 == IF cachedMedia = Null /\ md # Thrown /\ ~skipCache
              THEN setCachedData(c, up, t, mediaKey, md, MEDIA_CACHE_TTL)
              ELSE c
    IN
    IF md = Thrown THEN [resp |-> Resp(500, <<>>, FALSE), cache |-> c,
                         meta |-> NoMetadata]
    ELSE IF md = Null THEN [resp |-> Resp(404, <<>>, FALSE), cache |-> c1,
                            meta |-> NoMetadata]
    ELSE IF cachedRecs # Null /\ ~skipCache
    THEN [resp |-> Resp(200, cachedRecs.results, TRUE), cache |-> c1,
          meta |-> [genres |-> cachedRecs.sourceGenres]]
    ELSE
    LET all == AllRecommendations(md)
        c2 == CacheAfterCandidates(c1, up, t, db, type, all)
        det == [i \in 1 .. Len(all) |-> RecDetails(c1, up, t, db, type, all[i].id)]
        scored == [i \in 1 .. Len(all) |->
                     ScoredRec(md, all[i], det[i],
                               fetchContentRating(db, type, all[i].id))]
    IN
    IF \E i \in 1 .. Len(all) : det[i] = Thrown
    THEN [resp |-> Resp(500, <<>>, FALSE), cache |-> c2, meta |-> NoMetadata]
    ELSE LET results == JSONResults(SortedRecommendations(scored))
             data == [kind |-> "recommendations", results |-> results,
                      sourceGenres |-> md.genres]
         IN  [resp |-> Resp(200, results, FALSE),
              cache |-> setCachedData(c2, up, t, recKey, data,
                                      RECOMMENDATIONS_CACHE_TTL),
              meta |-> [genres |-> md.genres]]

----------------------------------------------------------------------------
(* The client: MediaRecommender.getRecommendations *)

\* a merge step that adds the scores up without halving
MergeStepSum(acc, curr) ==
    IF IndexOfId(acc, curr.id) # 0
    THEN [acc EXCEPT ![IndexOfId(acc, curr.id)] =
             [@ EXCEPT !.score = Num(@) + Num(curr.score), !.count = @ + 1]]
    ELSE Append(acc, [id |-> curr.id, media_type |-> curr.media_type,
                      source |-> curr.source, score |-> curr.score,
                      cert |-> curr.cert, count |-> 1])

\* the merge step were it to keep the mean of all occurrences so far
MergeStepMean(acc, curr) ==
    IF IndexOfId(acc, curr.id) # 0
    THEN [acc EXCEPT ![IndexOfId(acc, curr.id)] =
             [@ EXCEPT !.score = (Num(@) * acc[IndexOfId(acc, curr.id)].count
                                     + Num(curr.score))
                                 \div (acc[IndexOfId(acc, curr.id)].count + 1),
                       !.count = @ + 1]]
    ELSE Append(acc, [id |-> curr.id, media_type |-> curr.media_type,
                      source |-> curr.source, score |-> curr.score,
                      cert |-> curr.cert, count |-> 1])

\* one step of the client's merge reduce: average the scores, count the hits
MergeStep(acc, curr) ==
    IF IndexOfId(acc, curr.id) # 0
    THEN [acc EXCEPT ![IndexOfId(acc, curr.id)] =
             [@ EXCEPT !.score = (Num(@) + Num(curr.score)) \div 2,
                       !.count = @ + 1]]
    ELSE Append(acc, [id |-> curr.id, media_type |-> curr.media_type,
                      source |-> curr.source, score |-> curr.score,
                      cert |-> curr.cert, count |-> 1])

RECURSIVE MergeReduce(_, _)
MergeReduce(acc, rest) ==
    IF rest = <<>> THEN acc
    ELSE MergeReduce(MergeStep(acc, Head(rest)), Tail(rest))

\* recommendations.flatMap(r => r.results || [])
RECURSIVE FlatResults(_)
FlatResults(rs) ==
    IF rs = <<>> THEN <<>> ELSE Head(rs).results \o FlatResults(Tail(rs))

\* merged: the reduce, then the sort by the combined key
MergedRecommendations(rs, n) ==
    Sort("client", MergeReduce(<<>>, FlatResults(rs)), n)

\* the route responses for the favourites, each call made with skipCache=true,
\* and the store the calls leave
RECURSIVE FetchAll(_, _, _, _, _)
FetchAll(c, up, t, db, favs) ==
    IF favs = <<>> THEN [resps |-> <<>>, cache |-> c]
    ELSE LET r == GET(c, up, t, db, Head(favs).type, Head(favs).id, TRUE)
             rest == FetchAll(r.cache, up, t, db, Tail(favs))
         IN  [resps |-> <<r.resp>> \o rest.resps, cache |-> rest.cache]

----------------------------------------------------------------------------
(* RecommendationEngine (unnamed/part_000) *)

\* userPreferences; 0 and {} stand for an absent preference
NoPreferences ==
    [minYear |-> 0, maxYear |-> 0, excludedGenres |-> {}, minRating |-> 0]

Preferences ==
    {NoPreferences,
     [NoPreferences EXCEPT !.minRating = 70],
     [NoPreferences EXCEPT !.excludedGenres = {1}],
     [NoPreferences EXCEPT !.minYear = 2000]}

\* applyUserPreferences(movie); a missing release date gives a NaN year, for
\* which both year comparisons are false
applyUserPreferences(prefs, movie) ==
    /\ ~(prefs.minYear # 0 /\ movie.year # 0 /\ movie.year < prefs.minYear)
    /\ ~(prefs.maxYear # 0 /\ movie.year # 0 /\ movie.year > prefs.maxYear)
    /\ ~(prefs.excludedGenres \cap movie.genre_ids # {})
    /\ ~(prefs.minRating # 0 /\ movie.va10 < prefs.minRating)

\* one step of the forEach over the merged Map (kept in insertion order)
EngineStep(m, rec) ==
    IF IndexOfId(m, rec.id) # 0
    THEN [m EXCEPT ![IndexOfId(m, rec.id)] =
             [@ EXCEPT !.score = (Num(@) + Num(rec.score)) \div 2,
                       !.sources = Append(@, rec.source),
                       !.frequency = @ + 1]]
    ELSE Append(m, [id |-> rec.id, score |-> rec.score, source |-> rec.source,
                    year |-> rec.year, genre_ids |-> rec.genre_ids,
                    va10 |-> rec.va10, sources |-> <<rec.source>>,
                    frequency |-> 1])

RECURSIVE EngineReduce(_, _)
EngineReduce(m, rest) ==
    IF rest = <<>> THEN m
    ELSE EngineReduce(EngineStep(m, Head(rest)), Tail(rest))

\* Array.prototype.filter with applyUserPreferences
RECURSIVE FilterPreferences(_, _)
FilterPreferences(prefs, s) ==
    IF s = <<>> THEN <<>>
    ELSE IF applyUserPreferences(prefs, Head(s))
         THEN <<Head(s)>> \o FilterPreferences(prefs, Tail(s))
         ELSE FilterPreferences(prefs, Tail(s))

\* rankAndDeduplicate(recommendations)
rankAndDeduplicate(prefs, recommendations) ==
    FilterPreferences(prefs, Sort("engine", EngineReduce(<<>>, recommendations), 1))

\* the scored candidates of all seeds, as the engine's input records
EngineRecs(db, rs) ==
    [i \in 1 .. Len(rs) |->
        [id |-> rs[i].id, score |-> rs[i].score, source |-> rs[i].source,
         year |-> db[<<rs[i].media_type, rs[i].id>>].year,
         genre_ids |-> db[<<rs[i].media_type, rs[i].id>>].genres,
         va10 |-> db[<<rs[i].media_type, rs[i].id>>].va10]]

----------------------------------------------------------------------------
(* The provider stub the model starts from *)

Entry(genres, va10, vc, pop, year, recs, similar, cert) ==
    [status |-> 200, recsOk |-> TRUE, simOk |-> TRUE, recsFault |-> FALSE,
     simFault |-> FALSE, genres |-> genres,
     va10 |-> va10, vc |-> vc, pop |-> pop, year |-> year,
     recs |-> recs, similar |-> similar, cert |-> cert]

Catalogue ==
    (<<"tv", 1>> :> Entry({1, 2}, 85, 2000, 100, 2008, <<2, 3>>, <<3, 1>>, "TV-MA"))
    @@ (<<"tv", 2>> :> Entry({1}, 80, 1500, 50, 2010, <<3, 1>>, <<>>, "TV-14"))
    @@ (<<"tv", 3>> :> Entry({2}, 60, 300, 700, 2015, <<>>, <<2>>, ""))
    @@ (<<"movie", 1>> :> Entry({2}, 70, 500, 20, 1999, <<2>>, <<2, 3>>, "R"))
    @@ (<<"movie", 2>> :> Entry({1, 2}, 90, 9000, 900, 1994, <<3>>, <<1>>, "PG"))
    @@ (<<"movie", 3>> :> Entry({}, 0, 0, 0, 0, <<3, 1>>, <<>>, ""))

\* what a provider change can do to one identity's answers
Perturbed(e) ==
    {[e EXCEPT !.status = s] : s \in {404, 500}}
    \cup {[e EXCEPT !.genres = {}], [e EXCEPT !.recsOk = FALSE],
          [e EXCEPT !.simOk = FALSE], [e EXCEPT !.recsFault = TRUE],
          [e EXCEPT !.simFault = TRUE]}

----------------------------------------------------------------------------
(* The state machine of the route: requests, provider changes, redis outages, time *)

NoResponse == [kind |-> "none"]

NoRequest == [op |-> "none"]

InitEnv ==
    /\ tmdb = Catalogue
    /\ redisUp = TRUE
    /\ now = 0
    /\ changes = 0
    /\ ticks = 0

InitRoute ==
    /\ cache = <<>>
    /\ response = NoResponse
    /\ request = NoRequest
    /\ callLog = <<>>
    /\ calls = 0

InitClient ==
    /\ favorites = <<>>
    /\ seedResponses = <<>>
    /\ merged = <<>>
    /\ clientError = ""
    /\ engineOut = [prefs |-> NoPreferences, recs |-> <<>>, list |-> <<>>]

\* the scorers' variables while the route or the client runs
IdleScore ==
    /\ scoreSeed = [hasGenres |-> FALSE]
    /\ scoreOut = [fn |-> "none"]

\* the fetch variables while no fetch is modelled on its own
IdleFetch ==
    /\ fetcher = "none"
    /\ fetchArgs = <<"movie", 1>>
    /\ script = <<>>
    /\ fetchPc = "done"
    /\ sent = <<>>
    /\ clock = 0
    /\ wakeAt = 0
    /\ outcome = [kind |-> "none"]

\* the wrapper-call variables while the wrappers are not called on their own
IdleKv ==
    /\ kvOut = [op |-> "none"]
    /\ kvSet = <<>>

\* the chained route's variables while it is not called
IdleChain ==
    /\ chainDb = <<>>
    /\ chainOut = [op |-> "none"]

IdleRank ==
    /\ scoredRecs = <<>>
    /\ rankOut = [op |-> "none"]

IdlePatterns ==
    /\ text = <<>>
    /\ patternsOut = <<>>

IdleConc ==
    /\ batch = [phase |-> "idle"]
    /\ tasks = <<>>
    /\ settled = <<>>
    /\ batchOut = NoResponse

Init ==
    /\ InitEnv /\ InitRoute /\ InitClient /\ IdleScore /\ IdleFetch /\ IdleKv
    /\ IdleChain
    /\ IdleRank
    /\ IdlePatterns
    /\ IdleConc

\* a request to GET /api/recommendations?id=..&type=..&skipCache=..
RouteGET(type, id, skipCache) ==
    /\ calls < MaxCalls
    /\ calls' = calls + 1
    /\ request' = [op |-> "GET", type |-> type, id |-> id, skipCache |-> skipCache]
    /\ response' = GET(cache, redisUp, now, tmdb, type, id, skipCache).resp
    /\ cache' = GET(cache, redisUp, now, tmdb, type, id, skipCache).cache
    /\ callLog' = Append(callLog,
                         [request |-> request', at |-> now, response |-> response',
                          sourceMetadata |->
                              GET(cache, redisUp, now, tmdb, type, id, skipCache).meta])
    /\ UNCHANGED <<envVars, clientVars, scoreVars, fetchVars, kvVars, chainVars, rankVars, patternVars, concVars>>

\* the provider's answers for one identity change
ProviderChange(i) ==
    /\ calls < MaxCalls
    /\ changes < MaxChanges
    /\ changes' = changes + 1
    /\ \E e \in Perturbed(tmdb[i]) : tmdb' = [tmdb EXCEPT ![i] = e]
    /\ UNCHANGED <<redisUp, now, ticks, routeVars, clientVars, scoreVars, fetchVars, kvVars, chainVars, rankVars, patternVars, concVars>>

\* the redis backend goes down or comes back
RedisToggle ==
    /\ calls < MaxCalls
    /\ redisUp' = ~redisUp
    /\ UNCHANGED <<tmdb, now, changes, ticks, routeVars, clientVars, scoreVars, fetchVars, kvVars, chainVars, rankVars, patternVars, concVars>>

\* time passes; redis drops the keys whose expiry has passed
Tick(d) ==
    /\ calls < MaxCalls
    /\ ticks < MaxTicks
    /\ ticks' = ticks + 1
    /\ now' = now + d
    /\ cache' = [k \in {x \in DOMAIN cache : now + d < cache[x].exp} |-> cache[k]]
    /\ UNCHANGED <<tmdb, redisUp, changes, response, request, callLog, calls, clientVars,
                   scoreVars, fetchVars, kvVars, chainVars, rankVars, patternVars, concVars>>

\* the requests the model sends: every identity, a bad type, a missing type,
\* a missing id
Requests ==
    Identities \cup {<<"person", 1>>, <<NoType, 1>>, <<"tv", NoId>>}

Next ==
    \/ \E r \in Requests, skipCache \in BOOLEAN : RouteGET(r[1], r[2], skipCache)
    \/ \E i \in Identities : ProviderChange(i)
    \/ RedisToggle
    \/ \E d \in {RECOMMENDATIONS_CACHE_TTL, MEDIA_CACHE_TTL} : Tick(d)

Spec == Init /\ [][Next]_vars

----------------------------------------------------------------------------
(* The state machine of the client: favourites, getRecommendations, the engine *)

\* the search results a favourite can be added from
SearchResults == {<<"tv", 1>>, <<"tv", 2>>, <<"movie", 2>>, <<"movie", 3>>}

\* the client's addToFavorites(result): ignored when the id is already there
AddToFavorites(type, id) ==
    /\ calls < MaxClientCalls
    /\ Len(favorites) < MaxFavorites
    /\ ~ \E i \in 1 .. Len(favorites) : favorites[i].id = id
    /\ favorites' = Append(favorites, [id |-> id, type |-> type])
    /\ UNCHANGED <<envVars, routeVars, seedResponses, merged, clientError,
                   engineOut, scoreVars, fetchVars, kvVars, chainVars, rankVars, patternVars, concVars>>

\* the client's removeFromFavorites(id)
RemoveFromFavorites(id) ==
    /\ calls < MaxClientCalls
    /\ \E i \in 1 .. Len(favorites) : favorites[i].id = id
    /\ favorites' = RemoveId(favorites, id)
    /\ UNCHANGED <<envVars, routeVars, seedResponses, merged, clientError,
                   engineOut, scoreVars, fetchVars, kvVars, chainVars, rankVars, patternVars, concVars>>

\* the client's getRecommendations()
GetRecommendations ==
    /\ calls < MaxClientCalls
    /\ calls' = calls + 1
    /\ IF favorites = <<>>
       THEN /\ clientError' = "Please add some favorites first"
            /\ UNCHANGED <<cache, seedResponses, merged>>
       ELSE /\ clientError' = ""
            /\ seedResponses' = FetchAll(cache, redisUp, now, tmdb, favorites).resps
            /\ cache' = FetchAll(cache, redisUp, now, tmdb, favorites).cache
            /\ merged' = MergedRecommendations(seedResponses', Len(favorites))
    /\ UNCHANGED <<envVars, response, request, callLog, favorites, engineOut, scoreVars, fetchVars, kvVars, chainVars, rankVars, patternVars, concVars>>

\* new RecommendationEngine(prefs).rankAndDeduplicate(recs) on the scored
\* candidates the seeds' routes returned
EngineRank(prefs) ==
    /\ seedResponses # <<>>
    /\ engineOut' = [prefs |-> prefs,
                     recs |-> EngineRecs(tmdb, FlatResults(seedResponses)),
                     list |-> rankAndDeduplicate(
                                  prefs, EngineRecs(tmdb, FlatResults(seedResponses)))]
    /\ UNCHANGED <<envVars, routeVars, favorites, seedResponses, merged,
                   clientError, scoreVars, fetchVars, kvVars, chainVars, rankVars, patternVars, concVars>>

\* the provider's answers change before the client asks
ClientProviderChange(i) ==
    /\ calls < MaxClientCalls
    /\ changes < MaxChanges
    /\ changes' = changes + 1
    /\ \E e \in Perturbed(tmdb[i]) : tmdb' = [tmdb EXCEPT ![i] = e]
    /\ UNCHANGED <<redisUp, now, ticks, routeVars, clientVars, scoreVars, fetchVars, kvVars, chainVars, rankVars, patternVars, concVars>>

NextClient ==
    \/ \E r \in SearchResults : AddToFavorites(r[1], r[2])
    \/ \E id \in Ids : RemoveFromFavorites(id)
    \/ GetRecommendations
    \/ \E prefs \in Preferences : EngineRank(prefs)
    \/ \E i \in Identities : ClientProviderChange(i)

SpecClient == Init /\ [][NextClient]_vars

----------------------------------------------------------------------------
(* The scorers on their own: every seed, candidate and source of a small domain *)

PatternLabels == {"Unreliable Reality", "Corporate Dystopia"}

\* an item of the scorers' domain: an absent list, an empty one, overlapping ones
Item(g, p, k, v, pop, year) ==
    [hasGenres |-> g.has, genres |-> g.set,
     hasPatterns |-> p.has, patterns |-> p.set,
     hasKeywords |-> TRUE, keywords |-> k,
     va10 |-> v[1], vc |-> v[2], pop |-> pop, year |-> year]

GenreOptions ==
    {[has |-> FALSE, set |-> {}], [has |-> TRUE, set |-> {}],
     [has |-> TRUE, set |-> {1}], [has |-> TRUE, set |-> {1, 2}]}

PatternOptions ==
    {[has |-> FALSE, set |-> {}], [has |-> TRUE, set |-> {}],
     [has |-> TRUE, set |-> {"Corporate Dystopia"}]}

SeedItems ==
    {Item(g, p, {7, 8}, v, 0, y) :
        g \in GenreOptions, p \in PatternOptions,
        v \in {<<0, 0>>, <<85, 2000>>}, y \in {0, 2010}}

CandidateItems ==
    {Item(g, p, k, v, pop, y) :
        g \in GenreOptions, p \in PatternOptions, k \in {{}, {7}},
        v \in {<<0, 0>>, <<85, 2000>>, <<100, 1>>}, pop \in {0, 5000},
        y \in {0, 2010, 1985}}

NoScore == [fn |-> "none"]

InitScore ==
    /\ scoreSeed \in SeedItems
    /\ scoreOut = NoScore

\* calculateSimilarity(seed, candidate, source) of the recommendation route
ScoreRoute(item2, source) ==
    /\ scoreOut = NoScore
    /\ scoreOut' = [fn |-> "route", item2 |-> item2, source |-> source,
                    score |-> calculateSimilarity(scoreSeed, item2, source)]
    /\ UNCHANGED <<scoreSeed, envVars, routeVars, clientVars, fetchVars, kvVars, chainVars, rankVars, patternVars, concVars>>

\* calculateSimilarity(seed, candidate) of the chained route
ScoreChain(item2) ==
    /\ scoreOut = NoScore
    /\ scoreOut' = [fn |-> "chain", item2 |-> item2, source |-> "direct",
                    score |-> calculateSimilarityChain(scoreSeed, item2)]
    /\ UNCHANGED <<scoreSeed, envVars, routeVars, clientVars, fetchVars, kvVars, chainVars, rankVars, patternVars, concVars>>

NextScore ==
    \/ \E item2 \in CandidateItems, source \in {"direct", "similar"} :
           ScoreRoute(item2, source)
    \/ \E item2 \in CandidateItems : ScoreChain(item2)

ScoreInit ==
    /\ InitEnv /\ InitRoute /\ InitClient /\ InitScore /\ IdleFetch /\ IdleKv
    /\ IdleChain
    /\ IdleRank
    /\ IdlePatterns
    /\ IdleConc

SpecScore == ScoreInit /\ [][NextScore]_vars

----------------------------------------------------------------------------
(* One provider fetch on its own: fetchTMDBData (src/lib/redis.ts) and the
   details request of fetchMediaDetails (the recommendation route) *)

\* the longest run of 429 responses the provider gives
MaxRetries == 2

\* the seconds the model lets pass during one fetch
MaxClock == 5

Fetchers == {"fetchTMDBData", "fetchMediaDetails"}

\* the retry-after header of a response; "absent" when it carries none
RetryAfterHints == {"absent", "1", "2"}

\* parseInt(retryAfter) for the header values the provider sends
ParseInt(h) == IF h = "2" THEN 2 ELSE 1

\* parseInt(response.headers.get('retry-after') ?? '1'), the timer's seconds
RetryDelay(h) == ParseInt(IF h = "absent" THEN "1" ELSE h)

RateLimited == {[status |-> 429, retryAfter |-> h] : h \in RetryAfterHints}

FinalResponses == {[status |-> st, retryAfter |-> "absent"] : st \in {200, 404, 500}}

\* k rate-limited responses, then one that is not, for k = 0 .. MaxRetries
Scripts ==
    UNION {{rl \o <<final>> : rl \in [1 .. k -> RateLimited],
                              final \in FinalResponses} : k \in 0 .. MaxRetries}

\* the identities a fetch is called with: a movie, a show, a type that is
\* neither, a missing type, a missing id
FetchArgs == {<<"movie", 1>>, <<"tv", 2>>, <<"person", 1>>, <<NoType, 1>>, <<"tv", NoId>>}

InitFetch ==
    /\ fetcher \in Fetchers
    /\ fetchArgs \in FetchArgs
    /\ script \in Scripts
    /\ fetchPc = "ready"
    /\ sent = <<>>
    /\ clock = 0
    /\ wakeAt = 0
    /\ outcome = [kind |-> "pending"]

\* fetchTMDBData: one request and the handling of its response.  ok: the JSON;
\* 429: a timer of retry-after seconds, then the recursive call; 404: the
\* { error } value; anything else: a thrown error
FetchTMDBDataRequest ==
    /\ fetcher = "fetchTMDBData"
    /\ fetchPc = "ready"
    /\ sent' = Append(sent, clock)
    /\ LET r == script[Len(sent) + 1] IN
       IF r.status = 429
       THEN /\ fetchPc' = "sleeping"
            /\ wakeAt' = clock + RetryDelay(r.retryAfter)
            /\ UNCHANGED outcome
       ELSE /\ fetchPc' = "done"
            /\ outcome' = [kind |-> IF r.status = 200 THEN "json"
                                    ELSE IF r.status = 404 THEN "not_found"
                                    ELSE "throw",
                           status |-> r.status, at |-> clock]
            /\ UNCHANGED wakeAt
    /\ UNCHANGED <<fetcher, fetchArgs, script, clock, envVars, routeVars, clientVars,
                   scoreVars, kvVars, chainVars, rankVars, patternVars, concVars>>

\* the timer of fetchTMDBData fires: the recursive call starts
FetchTMDBDataWake ==
    /\ fetcher = "fetchTMDBData"
    /\ fetchPc = "sleeping"
    /\ clock >= wakeAt
    /\ fetchPc' = "ready"
    /\ UNCHANGED <<fetcher, fetchArgs, script, sent, clock, wakeAt, outcome, envVars,
                   routeVars, clientVars, scoreVars, kvVars, chainVars, rankVars, patternVars, concVars>>

\* fetchMediaDetails: a type other than movie or tv is thrown before any
\* request; otherwise the details request is sent and any response that is not
\* ok, a 429 included, is thrown
FetchMediaDetailsRequest ==
    /\ fetcher = "fetchMediaDetails"
    /\ fetchPc = "ready"
    /\ fetchPc' = "done"
    /\ IF fetchArgs[1] \notin MediaTypes
       THEN /\ sent' = sent
            /\ outcome' = [kind |-> "throw", status |-> 0, at |-> clock]
       ELSE /\ sent' = Append(sent, clock)
            /\ LET r == script[Len(sent) + 1] IN
               outcome' = [kind |-> IF r.status = 200 THEN "json" ELSE "throw",
                           status |-> r.status, at |-> clock]
    /\ UNCHANGED <<fetcher, fetchArgs, script, clock, wakeAt, envVars, routeVars,
                   clientVars, scoreVars, kvVars, chainVars, rankVars, patternVars, concVars>>

\* a second passes while the fetch is under way
FetchTick ==
    /\ fetchPc # "done"
    /\ clock < MaxClock
    /\ clock' = clock + 1
    /\ UNCHANGED <<fetcher, fetchArgs, script, fetchPc, sent, wakeAt, outcome, envVars,
                   routeVars, clientVars, scoreVars, kvVars, chainVars, rankVars, patternVars, concVars>>

NextFetch ==
    \/ FetchTMDBDataRequest
    \/ FetchTMDBDataWake
    \/ FetchMediaDetailsRequest
    \/ FetchTick

FetchInit ==
    /\ InitEnv /\ InitRoute /\ InitClient /\ IdleScore /\ InitFetch /\ IdleKv
    /\ IdleChain
    /\ IdleRank
    /\ IdlePatterns
    /\ IdleConc

SpecFetch == FetchInit /\ [][NextFetch]_vars

----------------------------------------------------------------------------
(* The cache wrappers on their own, and the redis test route (unnamed/part_005) *)

\* the wrapper calls the model makes
MaxKvOps == 3

\* the clock advances the model makes
MaxKvTicks == 2

KvKeys == {"test-key", "media:tv:1"}

\* JSON values: numbers, strings, booleans, null, an object
JSONValues ==
    {[kind |-> "number", n |-> 0], [kind |-> "number", n |-> 5],
     [kind |-> "string", s |-> ""], [kind |-> "string", s |-> "x"],
     [kind |-> "boolean", b |-> FALSE], [kind |-> "boolean", b |-> TRUE],
     Null, [kind |-> "object", message |-> "hi", timestamp |-> 0]}

NoSet == [kind |-> "unset"]

InitKv ==
    /\ kvOut = [op |-> "none"]
    /\ kvSet = [k \in KvKeys |-> NoSet]

\* setCachedData(key, data, ttl)
KvSetCachedData(key, data, ttl) ==
    /\ calls < MaxKvOps
    /\ calls' = calls + 1
    /\ cache' = setCachedData(cache, redisUp, now, key, data, ttl)
    /\ kvSet' = [kvSet EXCEPT ![key] = [kind |-> "set", val |-> data,
                                        at |-> now, ttl |-> ttl]]
    /\ kvOut' = [op |-> "set", key |-> key]
    /\ UNCHANGED <<envVars, response, request, callLog, clientVars, scoreVars, fetchVars, chainVars, rankVars, patternVars, concVars>>

\* getCachedData(key)
KvGetCachedData(key) ==
    /\ calls < MaxKvOps
    /\ calls' = calls + 1
    /\ kvOut' = [op |-> "get", key |-> key,
                 val |-> getCachedData(cache, redisUp, now, key)]
    /\ UNCHANGED <<envVars, cache, response, request, callLog, clientVars, scoreVars,
                   fetchVars, kvSet, chainVars, rankVars, patternVars, concVars>>

\* invalidateCache(key)
KvInvalidateCache(key) ==
    /\ calls < MaxKvOps
    /\ calls' = calls + 1
    /\ cache' = invalidateCache(cache, redisUp, key)
    /\ kvSet' = [kvSet EXCEPT ![key] = NoSet]
    /\ kvOut' = [op |-> "del", key |-> key]
    /\ UNCHANGED <<envVars, response, request, callLog, clientVars, scoreVars, fetchVars, chainVars, rankVars, patternVars, concVars>>

\* GET of the redis test route: answer from the cache, or store testData for
\* 60 seconds and answer with it
RedisTestGET ==
    /\ calls < MaxKvOps
    /\ calls' = calls + 1
    /\ LET testData == [kind |-> "object", message |-> "Hello from Redis!",
                        timestamp |-> now]
           cachedData == getCachedData(cache, redisUp, now, "test-key")
       IN  IF cachedData # Null
           THEN /\ kvOut' = [op |-> "test", source |-> "cache", data |-> cachedData]
                /\ UNCHANGED <<cache, kvSet>>
           ELSE /\ kvOut' = [op |-> "test", source |-> "new", data |-> testData]
                /\ cache' = setCachedData(cache, redisUp, now, "test-key",
                                          testData, 60)
                /\ kvSet' = [kvSet EXCEPT !["test-key"] =
                                [kind |-> "set", val |-> testData, at |-> now,
                                 ttl |-> 60]]
    /\ UNCHANGED <<envVars, response, request, callLog, clientVars, scoreVars, fetchVars, chainVars, rankVars, patternVars, concVars>>

\* time passes; an expired key stays in the store's map and reads as nil
KvTick(d) ==
    /\ calls < MaxKvOps
    /\ ticks < MaxKvTicks
    /\ ticks' = ticks + 1
    /\ now' = now + d
    /\ UNCHANGED <<tmdb, redisUp, changes, routeVars, clientVars, scoreVars,
                   fetchVars, kvVars, chainVars, rankVars, patternVars, concVars>>

NextCache ==
    \/ \E key \in KvKeys, data \in JSONValues, ttl \in {2, 60} :
           KvSetCachedData(key, data, ttl)
    \/ \E key \in KvKeys : KvGetCachedData(key)
    \/ \E key \in KvKeys : KvInvalidateCache(key)
    \/ RedisTestGET
    \/ \E d \in {1, 60} : KvTick(d)

CacheInit ==
    /\ InitEnv /\ InitRoute /\ InitClient /\ IdleScore /\ IdleFetch /\ InitKv
    /\ IdleChain
    /\ IdleRank
    /\ IdlePatterns
    /\ IdleConc

SpecCache == CacheInit /\ [][NextCache]_vars

----------------------------------------------------------------------------
(* The chained route (unnamed/part_002): fetchMediaDetails with its prefetch
   of the next levels, and GET with its one-hop expansion *)

\* the provider requests one fetchMediaDetails call sends itself
ChainRequestsPerFetch == 5

\* fetchMediaDetails prefetches the next level while depth < 2
ChainMaxDepth == 2

\* ... for the first 3 of the item's recommendations and similar items
ChainPrefetch == 3

\* GET expands the first 5 unique candidates
ChainExpand == 5

ChainIds == 1 .. 8

Succ(i) == (i % 8) + 1

\* every other id, starting after i
Others(i) == [k \in 1 .. 7 |-> ((i + k - 1) % 8) + 1]

\* the recommendation list of id i under choice o
RecsOf(i, o) == IF o = 0 THEN <<>> ELSE IF o = 1 THEN <<Succ(i)>> ELSE Others(i)

\* provider data: paths, cycles, wide lists, self-similar items
ChainDbs ==
    {[i \in ChainIds |->
        [recs |-> RecsOf(i, IF i <= 3 THEN c[i] ELSE d[i]),
         similar |-> IF f THEN <<i>> ELSE <<>>]] :
        c \in [1 .. 3 -> 0 .. 2], d \in [4 .. 8 -> 0 .. 1], f \in BOOLEAN}

\* the details the provider gives for id i
ChainItem(i) ==
    Item([has |-> TRUE, set |-> {i % 3}],
         [has |-> TRUE,
          set |-> IF i % 2 = 0 THEN {"Corporate Dystopia"} ELSE {}],
         {i % 2}, <<60 + 5 * i, 400 * i>>, 300 * i, 2000 + i)

\* fetchMediaDetails(type, id, depth) for an item reached hop links from the
\* seed: the number of fetchMediaDetails calls it amounts to and the farthest
\* hop it sends requests for
RECURSIVE ChainFetch(_, _, _, _)
RECURSIVE ChainFetchEach(_, _, _, _)
ChainFetch(db, id, depth, hop) ==
    LET next == Slice(db[id].recs \o db[id].similar, ChainPrefetch)
        deep == IF depth < ChainMaxDepth
                THEN ChainFetchEach(db, next, depth + 1, hop + 1)
                ELSE [calls |-> 0, reach |-> 0]
    IN  [calls |-> 1 + deep.calls, reach |-> Max(hop, deep.reach)]

\* Promise.all over fetchMediaDetails of each id
ChainFetchEach(db, ids, depth, hop) ==
    IF ids = <<>> THEN [calls |-> 0, reach |-> 0]
    ELSE LET h == ChainFetch(db, Head(ids), depth, hop)
             t == ChainFetchEach(db, Tail(ids), depth, hop)
         IN  [calls |-> h.calls + t.calls, reach |-> Max(h.reach, t.reach)]

\* Array.from(new Map(list.map(item => [item.id, item])).values()): one entry
\* per id, in the order of first occurrence
RECURSIVE UniqueIds(_)
UniqueIds(ids) ==
    IF ids = <<>> THEN <<>>
    ELSE LET front == UniqueIds(SubSeq(ids, 1, Len(ids) - 1))
             last == ids[Len(ids)]
         IN  IF \E k \in 1 .. Len(front) : front[k] = last THEN front
             ELSE Append(front, last)

\* expandedRecommendations.flat(): the recommendations of each expanded item
RECURSIVE FlatRecs(_, _)
FlatRecs(db, ids) ==
    IF ids = <<>> THEN <<>> ELSE db[Head(ids)].recs \o FlatRecs(db, Tail(ids))

\* GET of the chained route for seed id
ChainGET(db, id) ==
    LET source == ChainFetch(db, id, 0, 0)
        uniqueRecommendations == UniqueIds(db[id].recs \o db[id].similar)
        top == Slice(uniqueRecommendations, ChainExpand)
        expansion == ChainFetchEach(db, top, 0, 1)
        all == UniqueIds(uniqueRecommendations \o FlatRecs(db, top))
        first == ChainFetchEach(db, uniqueRecommendations, 0, 1)
        second == ChainFetchEach(
                      db, SubSeq(all, Len(uniqueRecommendations) + 1, Len(all)), 0, 2)
        processed == [k \in 1 .. Len(all) |->
                        [id |-> all[k],
                         score |-> calculateSimilarityChain(ChainItem(id),
                                                            ChainItem(all[k]))]]
        fetches == source.calls + expansion.calls + first.calls + second.calls
    IN  [op |-> "GET", seed |-> id, status |-> 200,
         calls |-> fetches,
         requests |-> ChainRequestsPerFetch * fetches,
         reach |-> Max(Max(source.reach, expansion.reach),
                       Max(first.reach, second.reach)),
         expanded |-> top,
         candidates |-> all,
         results |-> JSONResults(Slice(Sort("route", processed, 1), ResultCap))]

InitChain ==
    /\ chainDb \in ChainDbs
    /\ chainOut = [op |-> "none"]

\* one request to the chained route
ChainRouteGET(id) ==
    /\ chainOut.op = "none"
    /\ chainOut' = ChainGET(chainDb, id)
    /\ UNCHANGED <<chainDb, envVars, routeVars, clientVars, scoreVars, fetchVars,
                   kvVars, rankVars, patternVars, concVars>>

NextChain == \E id \in {1, 2} : ChainRouteGET(id)

ChainInit ==
    /\ InitEnv /\ InitRoute /\ InitClient /\ IdleScore /\ IdleFetch /\ IdleKv
    /\ InitChain
    /\ IdleRank
    /\ IdlePatterns
    /\ IdleConc

SpecChain == ChainInit /\ [][NextChain]_vars

-----------------------------------------------------------------------------
\* Ranking, cap and the client's rating filter on long candidate lists.
\* The route's reduce/sort/slice (route.ts 589-603) and the client's
\* filterRecommendationsByRating (MediaRecommender.tsx 315-335) applied to
\* lists of scored candidates longer than the cap.

MaxCandidates == 22

Certifications == {"PG", "R", ""}

\* the score of the k-th candidate under a shape of the list
ShapedScore(shape, k) ==
    CASE shape = "up" -> 100 * k
      [] shape = "down" -> 100 * (30 - k)
      [] shape = "flat" -> 5000
      [] shape = "zig" -> 100 * ((7 * k) % 23)

\* the candidates of one call after scoring: n elements, the nanAt-th with a
\* NaN score, the dupOf-th id listed a second time (similar path) at the end
ScoredList(n, shape, nanAt, r, dupOf) ==
    [k \in 1 .. n |->
        [id |-> k, media_type |-> "movie", source |-> "recommendation",
         score |-> IF k = nanAt THEN NaN ELSE ShapedScore(shape, k),
         cert |-> IF k % 3 = r THEN "R" ELSE IF k % 3 = (r + 1) % 3 THEN "PG" ELSE ""]]
    \o (IF dupOf = 0 THEN <<>>
        ELSE <<[id |-> dupOf, media_type |-> "movie", source |-> "similar",
                score |-> ShapedScore(shape, dupOf) + 50,
                cert |-> IF dupOf % 3 = r THEN "R"
                         ELSE IF dupOf % 3 = (r + 1) % 3 THEN "PG" ELSE ""]>>)

ScoredLists ==
    {ScoredList(n, shape, nanAt, r, dupOf) :
        n \in MaxCandidates - 3 .. MaxCandidates,
        shape \in {"up", "down", "flat", "zig"},
        nanAt \in {0, 1, MaxCandidates - 2},
        r \in 0 .. 2,
        dupOf \in {0, 2}}

\* filterRecommendationsByRating(recs, ratings)
filterRecommendationsByRating(recs, ratings) ==
    IF Cardinality(ratings) = 0 THEN recs
    ELSE SelectSeq(recs, LAMBDA rec : rec.cert # "" /\ rec.cert \in ratings)

InitRank ==
    /\ scoredRecs \in ScoredLists
    /\ rankOut = [op |-> "none"]

\* the route ranks the scored candidates and answers with the capped list
RankRouteGET ==
    /\ rankOut.op = "none"
    /\ rankOut' = [op |-> "GET",
                   results |-> JSONResults(SortedRecommendations(scoredRecs))]
    /\ UNCHANGED <<scoredRecs, envVars, routeVars, clientVars, scoreVars, fetchVars,
                   kvVars, chainVars, patternVars, concVars>>

\* the client, with this one favourite and the selected ratings, merges the
\* response, keeps it as unfilteredRecommendations and shows the filtered list
RankClientShow(ratings) ==
    /\ rankOut.op = "GET"
    /\ rankOut' = [op |-> "show", results |-> rankOut.results,
                   selectedRatings |-> ratings,
                   unfilteredRecommendations |->
                       MergedRecommendations(<<rankOut>>, 1),
                   recommendations |->
                       filterRecommendationsByRating(
                           MergedRecommendations(<<rankOut>>, 1), ratings)]
    /\ UNCHANGED <<scoredRecs, envVars, routeVars, clientVars, scoreVars, fetchVars,
                   kvVars, chainVars, patternVars, concVars>>

\* handleRatingChange(newRatings): the filter is applied again to the kept list
RankHandleRatingChange(newRatings) ==
    /\ rankOut.op \in {"show", "change"}
    /\ newRatings # rankOut.selectedRatings
    /\ rankOut' = [rankOut EXCEPT
                      !.op = "change",
                      !.selectedRatings = newRatings,
                      !.recommendations =
                          filterRecommendationsByRating(
                              rankOut.unfilteredRecommendations, newRatings)]
    /\ UNCHANGED <<scoredRecs, envVars, routeVars, clientVars, scoreVars, fetchVars,
                   kvVars, chainVars, patternVars, concVars>>

NextRank ==
    \/ RankRouteGET
    \/ \E ratings \in SUBSET {"PG", "R"} : RankClientShow(ratings)
    \/ \E newRatings \in SUBSET {"PG", "R"} : RankHandleRatingChange(newRatings)

RankInit ==
    /\ InitEnv /\ InitRoute /\ InitClient /\ IdleScore /\ IdleFetch /\ IdleKv
    /\ IdleChain
    /\ InitRank
    /\ IdlePatterns
    /\ IdleConc

SpecRank == RankInit /\ [][NextRank]_vars

-----------------------------------------------------------------------------
\* analyzePatterns (route.ts 261-307, the same text in unnamed/part_002
\* 125-171).  A text is its words in order, each with the gap that follows it;
\* a marker is a phrase of one or two words.  new RegExp(`\\b${marker}\\b`,
\* 'gi') matches a one-word marker at every word equal to it whatever the
\* case, and a two-word marker where its words follow each other with one
\* space between them.

MaxWords == 3

MaxAnalyses == 2

Words == {"reality", "REALITY", "alternate", "truth", "dreams", "company", "puzzle"}

Gaps == {" ", "-"}

\* the 'i' flag
Lower(w) == IF w = "REALITY" THEN "reality" ELSE w

Texts ==
    UNION {{[i \in 1 .. n |-> [word |-> w[i], gap |-> IF i < n THEN g[i] ELSE " "]] :
               w \in [1 .. n -> Words], g \in [1 .. n -> Gaps]} : n \in 0 .. MaxWords}

\* Object.entries(patternMarkers): the patterns in the table's order
PatternNames ==
    <<"Unreliable Reality", "Corporate Dystopia", "Existential Mystery",
      "Hidden World", "Psychological Thriller", "Complex Narrative">>

patternMarkers ==
    [p \in {PatternNames[i] : i \in 1 .. Len(PatternNames)} |->
       CASE p = "Unreliable Reality" ->
              << <<"reality">>, <<"dream">>, <<"memory">>, <<"consciousness">>,
                 <<"perception">>, <<"truth">>, <<"illusion">>, <<"simulation">>,
                 <<"alternate", "reality">> >>
         [] p = "Corporate Dystopia" ->
              << <<"corporation">>, <<"company">>, <<"workplace">>, <<"corporate">>,
                 <<"dystopia">>, <<"control">>, <<"surveillance">>,
                 <<"bureaucracy">>, <<"system">> >>
         [] p = "Existential Mystery" ->
              << <<"existence">>, <<"purpose">>, <<"meaning">>, <<"identity">>,
                 <<"philosophical">>, <<"mystery">>, <<"truth">>, <<"quest">>,
                 <<"journey">>, <<"discovery">> >>
         [] p = "Hidden World" ->
              << <<"secret">>, <<"conspiracy">>, <<"underground">>, <<"beneath">>,
                 <<"hidden">>, <<"truth">>, <<"discover">>, <<"uncover">>,
                 <<"reveal">>, <<"world", "within">> >>
         [] p = "Psychological Thriller" ->
              << <<"psychological">>, <<"mind">>, <<"paranoia">>, <<"suspense">>,
                 <<"tension">>, <<"mental">>, <<"thriller">>, <<"sanity">>,
                 <<"reality">> >>
         [] p = "Complex Narrative" ->
              << <<"timeline">>, <<"parallel">>, <<"interconnected">>,
                 <<"mystery", "box">>, <<"puzzle">>, <<"complex">>, <<"layers">>,
                 <<"revelation">> >>]

\* the regex of the marker matches the text at its i-th word
MatchesAt(t, marker, i) ==
    /\ i + Len(marker) - 1 <= Len(t)
    /\ \A j \in 1 .. Len(marker) :
          /\ Lower(t[i + j - 1].word) = marker[j]
          /\ j < Len(marker) => t[i + j - 1].gap = " "

\* (text.match(regex) || []).length
Matches(t, marker) == Cardinality({i \in 1 .. Len(t) : MatchesAt(t, marker, i)})

\* markers.reduce((count, marker) => count + matches, count)
RECURSIVE MatchCount(_, _, _)
MatchCount(t, markers, count) ==
    IF markers = <<>> THEN count
    ELSE MatchCount(t, Tail(markers), count + Matches(t, Head(markers)))

\* a threshold that asks for more than three markers
analyzePatternsMoreThanThree(t) ==
    SelectSeq(PatternNames, LAMBDA p : MatchCount(t, patternMarkers[p], 0) > 3)

\* analyzePatterns(text): the patterns with at least three marker matches
analyzePatterns(t) ==
    SelectSeq(PatternNames, LAMBDA p : MatchCount(t, patternMarkers[p], 0) >= 3)

InitPatterns ==
    /\ text \in Texts
    /\ patternsOut = <<>>

\* one call of analyzePatterns on the text
AnalyzePatterns ==
    /\ Len(patternsOut) < MaxAnalyses
    /\ patternsOut' = Append(patternsOut, analyzePatterns(text))
    /\ UNCHANGED <<text, envVars, routeVars, clientVars, scoreVars, fetchVars,
                   kvVars, chainVars, rankVars, concVars>>

NextPatterns == AnalyzePatterns

PatternsInit ==
    /\ InitEnv /\ InitRoute /\ InitClient /\ IdleScore /\ IdleFetch /\ IdleKv
    /\ IdleChain
    /\ IdleRank
    /\ InitPatterns
    /\ IdleConc

SpecPatterns == PatternsInit /\ [][NextPatterns]_vars

-----------------------------------------------------------------------------
\* The candidate tasks of one route call, step by step (route.ts 548-603).
\* Promise.all starts one async task per candidate; each task awaits the cache
\* read, then on a miss the fetch and the cache write, then the content
\* rating, and the tasks' awaits interleave freely.  Promise.all fulfils with
\* the tasks' values in list order once all are fulfilled, and rejects as soon
\* as one task rejects; the other tasks are not cancelled.

\* the stores a call can start from: empty, or left by an earlier call
FirstStores ==
    {<<>>} \cup {GET(<<>>, TRUE, 0, Catalogue, i[1], i[2], FALSE).cache :
                    i \in {<<"movie", 2>>, <<"tv", 3>>}}

\* the provider's fixed answers during the call
Providers ==
    {Catalogue}
    \cup UNION {{[Catalogue EXCEPT ![i] = e] : e \in Perturbed(Catalogue[i])} :
                  i \in {<<"movie", 1>>, <<"movie", 3>>, <<"tv", 3>>}}

\* the values of the fulfilled tasks in the order the tasks completed
CompletionOrderValues(values, order) ==
    [k \in 1 .. Len(order) |-> values[order[k]]]

\* the array Promise.all fulfils with: the values in the order of the tasks
PromiseAllValues(values, order) == values

\* the value a fulfilled task returns
TaskValue(b, db, task) ==
    ScoredRec(b.md, [id |-> task.id, source |-> task.source], task.details,
              fetchContentRating(db, b.type, task.id))

InitConc ==
    /\ tmdb \in Providers
    /\ redisUp \in BOOLEAN
    /\ now = 0
    /\ changes = 0
    /\ ticks = 0
    /\ cache \in FirstStores
    /\ response = NoResponse
    /\ request = NoRequest
    /\ callLog = <<>>
    /\ calls = 0
    /\ batch = [phase |-> "idle"]
    /\ tasks = <<>>
    /\ settled = <<>>
    /\ batchOut = NoResponse

\* GET up to Promise.all: the seed's details (cached or fetched and written),
\* the early answers, and one task per entry of allRecommendations
ConcStart(type, id) ==
    /\ batch.phase = "idle"
    /\ LET mediaKey == generateCacheKey("media", type, id)
           recKey == generateCacheKey("recommendations", type, id)
           cachedRecs == getCachedData(cache, redisUp, now, recKey)
           cachedMedia == getCachedData(cache, redisUp, now, mediaKey)
           md == IF cachedMedia = Null THEN fetchMediaDetails(tmdb, type, id)
                 ELSE cachedMedia
       IN  /\ cache' = IF cachedMedia = Null /\ md # Thrown
                       THEN setCachedData(cache, redisUp, now, mediaKey, md,
                                          MEDIA_CACHE_TTL)
                       ELSE cache
           /\ IF md = Thrown
              THEN /\ batchOut' = Resp(500, <<>>, FALSE)
                   /\ tasks' = <<>>
                   /\ batch' = [phase |-> "answered", type |-> type, id |-> id,
                                md |-> md, first |-> cache]
              ELSE IF cachedRecs # Null
              THEN /\ batchOut' = Resp(200, cachedRecs.results, TRUE)
                   /\ tasks' = <<>>
                   /\ batch' = [phase |-> "answered", type |-> type, id |-> id,
                                md |-> md, first |-> cache]
              ELSE /\ batchOut' = batchOut
                   /\ tasks' = [k \in 1 .. Len(AllRecommendations(md)) |->
                                  [id |-> AllRecommendations(md)[k].id,
                                   source |-> AllRecommendations(md)[k].source,
                                   pc |-> "read", details |-> Null]]
                   /\ batch' = [phase |-> "running", type |-> type, id |-> id,
                                md |-> md, first |-> cache]
    /\ UNCHANGED <<envVars, response, request, callLog, calls, settled,
                   clientVars, scoreVars, fetchVars, kvVars, chainVars,
                   rankVars, patternVars>>

\* a task's `await getCachedData(recCacheKey)`
TaskRead(k) ==
    /\ tasks[k].pc = "read"
    /\ LET hit == getCachedData(cache, redisUp, now,
                      generateCacheKey("media", batch.type, tasks[k].id))
       IN  tasks' = [tasks EXCEPT ![k] =
                       IF hit # Null THEN [@ EXCEPT !.pc = "rate", !.details = hit]
                       ELSE [@ EXCEPT !.pc = "fetch"]]
    /\ UNCHANGED <<envVars, routeVars, batch, settled, batchOut, clientVars,
                   scoreVars, fetchVars, kvVars, chainVars, rankVars, patternVars>>

\* a task's `await fetchMediaDetails(type, rec.id)`: a thrown error rejects it
TaskFetch(k) ==
    /\ tasks[k].pc = "fetch"
    /\ LET got == fetchMediaDetails(tmdb, batch.type, tasks[k].id)
       IN  tasks' = [tasks EXCEPT ![k] =
                       IF got = Thrown THEN [@ EXCEPT !.pc = "rejected"]
                       ELSE [@ EXCEPT !.pc = "write", !.details = got]]
    /\ UNCHANGED <<envVars, routeVars, batch, settled, batchOut, clientVars,
                   scoreVars, fetchVars, kvVars, chainVars, rankVars, patternVars>>

\* a task's `await setCachedData(recCacheKey, recDetails, MEDIA_CACHE_TTL)`
TaskWrite(k) ==
    /\ tasks[k].pc = "write"
    /\ cache' = setCachedData(cache, redisUp, now,
                              generateCacheKey("media", batch.type, tasks[k].id),
                              tasks[k].details, MEDIA_CACHE_TTL)
    /\ tasks' = [tasks EXCEPT ![k].pc = "rate"]
    /\ UNCHANGED <<envVars, response, request, callLog, calls, batch, settled,
                   batchOut, clientVars, scoreVars, fetchVars, kvVars, chainVars,
                   rankVars, patternVars>>

\* a task's `await fetchContentRating(...)`, the scoring and its return
TaskRate(k) ==
    /\ tasks[k].pc = "rate"
    /\ tasks' = [tasks EXCEPT ![k].pc = "fulfilled"]
    /\ settled' = Append(settled, k)
    /\ UNCHANGED <<envVars, routeVars, batch, batchOut, clientVars, scoreVars,
                   fetchVars, kvVars, chainVars, rankVars, patternVars>>

\* Promise.all rejects: the handler's catch answers 500
ConcReject ==
    /\ batch.phase = "running"
    /\ \E k \in 1 .. Len(tasks) : tasks[k].pc = "rejected"
    /\ batchOut' = Resp(500, <<>>, FALSE)
    /\ batch' = [batch EXCEPT !.phase = "answered"]
    /\ UNCHANGED <<envVars, routeVars, tasks, settled, clientVars, scoreVars,
                   fetchVars, kvVars, chainVars, rankVars, patternVars>>

\* Promise.all fulfils: reduce, sort, slice, the result write and the answer
ConcFulfil ==
    /\ batch.phase = "running"
    /\ \A k \in 1 .. Len(tasks) : tasks[k].pc = "fulfilled"
    /\ LET values == [k \in 1 .. Len(tasks) |-> TaskValue(batch, tmdb, tasks[k])]
           results == JSONResults(SortedRecommendations(
                                      PromiseAllValues(values, settled)))
       IN  /\ batchOut' = Resp(200, results, FALSE)
           /\ cache' = setCachedData(
                           cache, redisUp, now,
                           generateCacheKey("recommendations", batch.type, batch.id),
                           [kind |-> "recommendations", results |-> results,
                            sourceGenres |-> batch.md.genres],
                           RECOMMENDATIONS_CACHE_TTL)
    /\ batch' = [batch EXCEPT !.phase = "answered"]
    /\ UNCHANGED <<envVars, response, request, callLog, calls, tasks, settled,
                   clientVars, scoreVars, fetchVars, kvVars, chainVars, rankVars,
                   patternVars>>

NextConc ==
    \/ \E i \in Identities : ConcStart(i[1], i[2])
    \/ \E k \in 1 .. Len(tasks) : TaskRead(k)
    \/ \E k \in 1 .. Len(tasks) : TaskFetch(k)
    \/ \E k \in 1 .. Len(tasks) : TaskWrite(k)
    \/ \E k \in 1 .. Len(tasks) : TaskRate(k)
    \/ ConcReject
    \/ ConcFulfil

ConcInit ==
    /\ InitConc /\ InitClient /\ IdleScore /\ IdleFetch /\ IdleKv
    /\ IdleChain
    /\ IdleRank
    /\ IdlePatterns

SpecConc == ConcInit /\ [][NextConc]_vars

-----------------------------------------------------------------------------
\* The merges on their own: the client's reduce (MediaRecommender.tsx 258-297,
\* components/MediaRecommender.tsx 76-92) and the engine's rankAndDeduplicate
\* (unnamed/part_000 91-108) on result lists in which an id occurs up to
\* MaxOccurrences times

\* the longest list of per-seed results handed to a merge
MaxOccurrences == 3

\* the path scores of the merged results
MergeScores == {0, 2000, 4000, 8000, SCALE}

\* a seed's response carrying one result
OneResult(id, score) ==
    Resp(200, <<[id |-> id, media_type |-> "movie", source |-> "direct",
                 score |-> score, cert |-> ""]>>, FALSE)

InitMerge ==
    /\ favorites = <<>>
    /\ \E n \in 1 .. MaxOccurrences :
          seedResponses \in [1 .. n -> {OneResult(id, sc) : id \in 1 .. 2,
                                                             sc \in MergeScores}]
    /\ merged = <<>>
    /\ clientError = ""
    /\ engineOut = [prefs |-> NoPreferences, recs |-> <<>>, list |-> <<>>]

\* the client's flatMap, reduce and sort on the seeds' responses
ClientMerge ==
    /\ merged = <<>>
    /\ merged' = MergedRecommendations(seedResponses, Len(seedResponses))
    /\ UNCHANGED <<envVars, routeVars, favorites, seedResponses, clientError,
                   engineOut, scoreVars, fetchVars, kvVars, chainVars, rankVars,
                   patternVars, concVars>>

\* the engine's rankAndDeduplicate on the same results
EngineMerge ==
    /\ engineOut.list = <<>>
    /\ engineOut' = [prefs |-> NoPreferences,
                     recs |-> EngineRecs(tmdb, FlatResults(seedResponses)),
                     list |-> rankAndDeduplicate(
                                  NoPreferences,
                                  EngineRecs(tmdb, FlatResults(seedResponses)))]
    /\ UNCHANGED <<envVars, routeVars, favorites, seedResponses, merged,
                   clientError, scoreVars, fetchVars, kvVars, chainVars, rankVars,
                   patternVars, concVars>>

NextMerge ==
    \/ ClientMerge
    \/ EngineMerge

MergeInit ==
    /\ InitEnv /\ InitRoute /\ InitMerge /\ IdleScore /\ IdleFetch /\ IdleKv
    /\ IdleChain
    /\ IdleRank
    /\ IdlePatterns
    /\ IdleConc

SpecMerge == MergeInit /\ [][NextMerge]_vars

----------------------------------------------------------------------------
(* Properties of the client, the route results it merges and the engine *)

\* C1: no two elements of a returned result list share a media identity: not in
\* a route response, not in the client's merged list, not in the engine's list,
\* whether an id is in both lists of one seed or surfaced by several seeds.
C1_NoSharedIdentity ==
    /\ \A s \in 1 .. Len(seedResponses) :
         \A i, j \in 1 .. Len(seedResponses[s].results) :
            i # j => <<seedResponses[s].results[i].media_type,
                       seedResponses[s].results[i].id>>
                     # <<seedResponses[s].results[j].media_type,
                         seedResponses[s].results[j].id>>
    /\ \A i, j \in 1 .. Len(merged) :
          i # j => <<merged[i].media_type, merged[i].id>>
                   # <<merged[j].media_type, merged[j].id>>
    /\ \A i, j \in 1 .. Len(engineOut.list) :
          i # j => engineOut.list[i].id # engineOut.list[j].id

\* two favourites were asked for; one seed's direct and similar lists share an
\* id, so its response is shorter than its candidate list; an id came from both
\* seeds; the engine ranked the same candidates
C1_Witness ==
    /\ Len(favorites) = 2 /\ Len(seedResponses) = 2
    /\ \E s \in 1 .. 2 :
          /\ seedResponses[s].status = 200
          /\ seedResponses[s].results # <<>>
          /\ Len(seedResponses[s].results)
               < Len(AllRecommendations(
                        fetchMediaDetails(tmdb, favorites[s].type, favorites[s].id)))
    /\ \E i \in 1 .. Len(merged) : merged[i].count = 2
    /\ \E i \in 1 .. Len(engineOut.list) : engineOut.list[i].frequency = 2

\* C2: no element of a returned result (a route response for a seed, the
\* client's merged list) has the identity of a seed.
C2_SeedNeverReturned ==
    /\ \A s \in 1 .. Len(seedResponses) :
         \A i \in 1 .. Len(seedResponses[s].results) :
            \A f \in 1 .. Len(favorites) :
               <<seedResponses[s].results[i].media_type,
                 seedResponses[s].results[i].id>>
               # <<favorites[f].type, favorites[f].id>>
    /\ \A i \in 1 .. Len(merged) :
         \A f \in 1 .. Len(favorites) :
            <<merged[i].media_type, merged[i].id>>
            # <<favorites[f].type, favorites[f].id>>

RunningAverage(occ) ==
    LET running[k \in 1 .. Len(occ)] ==
            IF k = 1 THEN occ[1].score
            ELSE (Num(running[k - 1]) + Num(occ[k].score)) \div 2
    IN  running[Len(occ)]

\* every element of list stands for all occurrences of its id in input, with
\* the running average as its score and the number of occurrences under field c
AveragedByOccurrence(input, list, c) ==
    \A j \in 1 .. Len(list) :
       LET occ == SelectSeq(input, LAMBDA e : e.id = list[j].id)
       IN  /\ Len(occ) >= 1
           /\ list[j][c] = Len(occ)
           /\ list[j].score = RunningAverage(occ)

\* the score the route computes for candidate rid of seed f, by source
PathScore(f, rid, source) ==
    calculateSimilarity(fetchMediaDetails(tmdb, f.type, f.id),
                        fetchMediaDetails(tmdb, f.type, rid), source)

\* the ids of one of the two provider lists of a seed
ListIds(list) == {list[k] : k \in 1 .. Len(list)}

----------------------------------------------------------------------------
(* Properties of the route: candidate failures, skipCache, redis outages *)

\* C6: when the seed's metadata resolves and the fetch of a candidate fails, the
\* call still succeeds and returns every candidate whose metadata resolved.
C6_CandidateFailureIsolated ==
    [][(/\ calls' = calls + 1
        /\ cache = <<>>
        /\ request'.type \in MediaTypes /\ request'.id \in Ids
        /\ fetchMediaDetails(tmdb, request'.type, request'.id) # Thrown) =>
         LET md == fetchMediaDetails(tmdb, request'.type, request'.id)
             resolved == {rid \in ListIds(md.recs) \cup ListIds(md.similar) :
                            fetchMediaDetails(tmdb, request'.type, rid) # Thrown}
         IN  /\ response'.status = 200
             /\ {response'.results[i].id : i \in 1 .. Len(response'.results)}
                  = resolved
    ]_vars

\* C7: a call with skipCache=true leaves the store as it found it and answers
\* as it would with nothing cached.
C7_SkipCacheTouchesNoEntry ==
    [][(calls' = calls + 1 /\ request'.skipCache) =>
         /\ cache' = cache
         /\ response' = GET(<<>>, redisUp, now, tmdb, request'.type, request'.id,
                            TRUE).resp
    ]_vars

\* C9: with the backend down, getCachedData answers a miss and setCachedData
\* and invalidateCache leave the store alone; a call made during the outage
\* completes with the response the same call gives on an empty, working cache.
C9_OutageIsMissAndNoOp ==
    [][(calls' = calls + 1 /\ ~redisUp) =>
         /\ \A key \in DOMAIN cache :
               /\ getCachedData(cache, redisUp, now, key) = Null
               /\ setCachedData(cache, redisUp, now, key, cache[key].val,
                                CACHE_TTL) = cache
               /\ invalidateCache(cache, redisUp, key) = cache
         /\ cache' = cache
         /\ response'.kind = "response"
         /\ response' = GET(<<>>, TRUE, now, tmdb, request'.type, request'.id,
                            request'.skipCache).resp
    ]_vars

\* a call without skipCache was answered during an outage with fresh results,
\* while the store still held a live cached result and live metadata for it
C9_Witness ==
    /\ ~redisUp
    /\ request.op = "GET" /\ ~request.skipCache
    /\ response.status = 200 /\ ~response.cached /\ response.results # <<>>
    /\ RedisGet(cache, now,
                generateCacheKey("recommendations", request.type, request.id))
         # Null
    /\ RedisGet(cache, now, generateCacheKey("media", request.type, request.id))
         # Null

----------------------------------------------------------------------------
(* Properties of the scorers *)

\* C4: calculateSimilarity returns a score in [0, 1] for every seed, candidate
\* and source, and never a not-a-number score.
C4_ScoreInUnitInterval ==
    scoreOut.fn # "none" =>
       /\ scoreOut.score # NaN
       /\ 0 <= scoreOut.score /\ scoreOut.score <= SCALE

----------------------------------------------------------------------------
(* Properties of a single fetch *)

\* C8: a fetch answered by k 429 responses and then another response issues
\* k + 1 requests, sends each retry no sooner than the retry-after of the 429
\* before it (1 second when absent), and ends with the outcome of the final
\* response, no sooner than its last request.
C8_RetriesAfterEachRateLimit ==
    fetchPc = "done" /\ fetcher \in Fetchers /\ fetchArgs[1] \in MediaTypes =>
       /\ Len(sent) = Len(script)
       /\ \A i \in 1 .. Len(sent) - 1 :
             sent[i + 1] >= sent[i]
                + (IF script[i].retryAfter = "absent" THEN 1
                   ELSE IF script[i].retryAfter = "1" THEN 1 ELSE 2)
       /\ outcome.status = script[Len(script)].status
       /\ outcome.at >= sent[Len(sent)]

----------------------------------------------------------------------------
(* Properties of the cache wrappers *)

\* C10: getCachedData(key) returns the value of the last setCachedData(key, v,
\* ttl) unchanged while fewer than ttl seconds have passed, for every JSON
\* value v, and a miss once ttl seconds have passed, as for a key never set.
C10_RoundTrip ==
    [][(calls' = calls + 1 /\ kvOut'.op = "get") =>
         LET last == kvSet[kvOut'.key] IN
         IF last # NoSet /\ now < last.at + last.ttl
         THEN kvOut'.val = last.val
         ELSE kvOut'.val = Null
    ]_vars

----------------------------------------------------------------------------
(* Properties of the client's error reporting *)

\* C11: getRecommendations reports a failure if and only if no seed's metadata
\* could be resolved; when every seed fails the caller sees an error, not an
\* empty list.
C11_ErrorIffNoSeedResolved ==
    [][(calls' = calls + 1) =>
         LET noneResolved ==
                \A s \in 1 .. Len(favorites) :
                   fetchMediaDetails(tmdb, favorites[s].type, favorites[s].id)
                      = Thrown
         IN  (clientError' # "") <=> noneResolved
    ]_vars

----------------------------------------------------------------------------
(* Properties of the route: not-found identities *)

\* C12: for an identity the provider answers 404 to, the fetch gives a value
\* and does not throw; a call whose seed resolves and whose candidates answer
\* 200 or 404 succeeds and returns exactly the candidates that answered 200.
C12_NotFoundCandidateSkipped ==
    [][(/\ calls' = calls + 1
        /\ cache = <<>>
        /\ request'.type \in MediaTypes /\ request'.id \in Ids
        /\ fetchMediaDetails(tmdb, request'.type, request'.id) # Thrown) =>
         LET md == fetchMediaDetails(tmdb, request'.type, request'.id)
             cands == ListIds(md.recs) \cup ListIds(md.similar)
         IN  /\ \A i \in Identities :
                   tmdb[i].status = 404 =>
                      fetchMediaDetails(tmdb, i[1], i[2]) # Thrown
             /\ (\A rid \in cands : tmdb[<<request'.type, rid>>].status \in {200, 404})
                   => /\ response'.status = 200
                      /\ {response'.results[i].id : i \in 1 .. Len(response'.results)}
                           = {rid \in cands :
                                 tmdb[<<request'.type, rid>>].status = 200}
    ]_vars

\* ---------------------------------------------------------------------------
\* Properties of the chained route (src/unnamed/part_002)
\* ---------------------------------------------------------------------------

\* C13: chain expansion is hard-bounded: one aggregation call of the chained
\* route terminates, expands at most ChainExpand (5) candidates, sends provider
\* requests only for items at most one hop beyond the seed's own candidate
\* lists (hop 2 counted from the seed), and sends at most five requests for the
\* seed, for each expanded candidate and for each scored candidate.
C13_ChainHardBounded ==
    chainOut.op = "GET" =>
        /\ chainOut.status = 200
        /\ Len(chainOut.expanded) <= ChainExpand
        /\ chainOut.reach <= 2
        /\ chainOut.requests <= ChainRequestsPerFetch
               * (1 + Len(chainOut.expanded) + Len(chainOut.candidates))

\* ---------------------------------------------------------------------------
\* Properties of ranking, cap and filter on long candidate lists
\* ---------------------------------------------------------------------------

\* the ids of a list, in the list's order
IdsInOrder(s) == [i \in 1 .. Len(s) |-> s[i].id]

\* the ranked list of all unique candidates of the call, before any cap
RankedAll == Sort("route", DedupReduce(<<>>, scoredRecs), 1)

\* C14: the rating filter is applied after ranking: the list shown is the
\* order-preserving sub-sequence of the ranked list holding exactly the
\* elements that pass, and it is the best ResultCap (20) ranked matches among
\* all the call's candidates that pass the filter.
C14_FilteredIsBestOfPassing ==
    rankOut.op \in {"show", "change"} =>
        /\ rankOut.recommendations =
              filterRecommendationsByRating(rankOut.unfilteredRecommendations,
                                            rankOut.selectedRatings)
        /\ IdsInOrder(rankOut.recommendations) =
              IdsInOrder(Slice(filterRecommendationsByRating(
                                   RankedAll, rankOut.selectedRatings),
                               ResultCap))

C16_IdentityIsTypeAndId ==
    LET flat == FlatResults(seedResponses)
        same(k) == {j \in 1 .. Len(flat) :
                       /\ flat[j].id = flat[k].id
                       /\ flat[j].media_type = flat[k].media_type}
    IN  \A k \in 1 .. Len(flat) :
            \E i \in 1 .. Len(merged) :
                /\ merged[i].id = flat[k].id
                /\ merged[i].media_type = flat[k].media_type
                /\ merged[i].count = Cardinality(same(k))

\* C17: a fetch called with a malformed identity (type missing, type other
\* than movie or tv, or id missing) is rejected at once: it ends thrown at the
\* time of the call, sends no provider request and retries nothing.
C17_MalformedRejectedUnsent ==
    (fetcher \in Fetchers
        /\ (fetchArgs[1] \notin MediaTypes \/ fetchArgs[2] = NoId)) =>
        /\ sent = <<>>
        /\ fetchPc # "sleeping"
        /\ fetchPc = "done" => (outcome.kind = "throw" /\ outcome.at = 0)

-----------------------------------------------------------------------------
(* Properties of the pattern classification *)

\* the marker occurrences of a pattern in the text: every (marker, place)
\* where a marker phrase of the pattern stands in the text
Occurrences(p) ==
    {<<m, i>> \in (1 .. Len(patternMarkers[p])) \X (1 .. Len(text)) :
        MatchesAt(text, patternMarkers[p][m], i)}

\* C18: for every pattern of the table, a call of analyzePatterns returns the
\* pattern exactly when the text holds at least 3 occurrences of its marker
\* phrases (2 exclude it, 3 include it), and every call on the same text
\* returns the same patterns.
C18_IncludedIffThreeMarkers ==
    \A k \in 1 .. Len(patternsOut) :
        /\ \A p \in DOMAIN patternMarkers :
              (\E i \in 1 .. Len(patternsOut[k]) : patternsOut[k][i] = p)
                  <=> Cardinality(Occurrences(p)) >= 3
        /\ patternsOut[k] = patternsOut[1]

\* two calls were made on a text with exactly 3 occurrences for one pattern,
\* which is returned, and exactly 2 for another, which is not
C18_Witness ==
    /\ Len(patternsOut) = MaxAnalyses
    /\ \E p \in DOMAIN patternMarkers :
          /\ Cardinality(Occurrences(p)) = 3
          /\ \E i \in 1 .. Len(patternsOut[2]) : patternsOut[2][i] = p
    /\ \E q \in DOMAIN patternMarkers :
          /\ Cardinality(Occurrences(q)) = 2
          /\ \A i \in 1 .. Len(patternsOut[2]) : patternsOut[2][i] # q

-----------------------------------------------------------------------------
(* Properties of the score's normalisation *)

\* the sum of the weights of the components the route's scorer applied
AppliedWeights(item1, item2, source) ==
    (IF source = "direct" THEN W_directRecommendation ELSE W_similar)
    + (IF item1.hasGenres /\ item2.hasGenres THEN W_genreMatch ELSE 0)
    + (IF item1.hasPatterns /\ item2.hasPatterns THEN W_thematicPattern ELSE 0)
    + (IF item2.va10 # 0 /\ item2.vc # 0 THEN W_voteAverage ELSE 0)
    + (IF item2.va10 # 0 /\ item2.vc # 0 /\ item2.pop # 0 THEN W_popularity ELSE 0)
    + (IF YearOf(item1) # 0 /\ YearOf(item2) # 0 THEN W_yearProximity ELSE 0)

\* C19: the score a scorer returns is the weighted sum of the components it
\* applied divided by the sum of the weights of exactly those components,
\* clamped to [0, 1]; a component whose data is missing adds nothing to either.
C19_NormalisedByAppliedWeights ==
    /\ scoreOut.fn = "route" =>
          scoreOut.score =
              Clamp01(Over(TotalScore(scoreSeed, scoreOut.item2, scoreOut.source),
                           AppliedWeights(scoreSeed, scoreOut.item2, scoreOut.source)))
    /\ scoreOut.fn = "chain" =>
          scoreOut.score =
              IF ChainSum(scoreSeed, scoreOut.item2).w > 0
              THEN Clamp01(Over(ChainSum(scoreSeed, scoreOut.item2).s,
                                (ChainSum(scoreSeed, scoreOut.item2).w * SCALE) \div 100))
              ELSE 0

-----------------------------------------------------------------------------
(* Properties of repeated calls of the route *)

\* C20: two calls of the route for the same seed, both without skipCache, the
\* second made less than RECOMMENDATIONS_CACHE_TTL seconds after the first,
\* return the same results list and the same sourceMetadata, whatever the
\* provider answered in between.
C20_SameAnswerWithinTTL ==
    \A i \in 1 .. Len(callLog) : \A j \in i + 1 .. Len(callLog) :
        (/\ callLog[i].request.type = callLog[j].request.type
         /\ callLog[i].request.id = callLog[j].request.id
         /\ ~callLog[i].request.skipCache
         /\ ~callLog[j].request.skipCache
         /\ callLog[j].at < callLog[i].at + RECOMMENDATIONS_CACHE_TTL)
        => /\ callLog[j].response.results = callLog[i].response.results
           /\ callLog[j].sourceMetadata = callLog[i].sourceMetadata

-----------------------------------------------------------------------------
(* Properties of the cached-result path *)

\* the provider when every details request fails
ProviderDown(db) == [i \in DOMAIN db |-> [db[i] EXCEPT !.status = 500]]

\* C21: a call without skipCache that finds an unexpired
\* recommendations:{type}:{id} entry returns that entry's results and sends no
\* provider request: its answer and the store are what they would be with the
\* provider down, whatever media:{type}:{id} entries the store holds.
C21_CachedResultNeedsNoProvider ==
    [][(/\ calls' = calls + 1
        /\ ~request'.skipCache
        /\ request'.type \in MediaTypes /\ request'.id \in Ids
        /\ getCachedData(cache, redisUp, now,
               generateCacheKey("recommendations", request'.type, request'.id))
             # Null) =>
         LET cached == getCachedData(cache, redisUp, now,
                 generateCacheKey("recommendations", request'.type, request'.id))
         IN  /\ response'.status = 200
             /\ response'.results = cached.results
             /\ cache' = cache
             /\ response' = GET(cache, redisUp, now, ProviderDown(tmdb),
                                request'.type, request'.id, FALSE).resp
    ]_vars

\* C22: the candidate fetches of one call interleave freely, and the merge runs
\* only once all of them completed: whatever the completion order of the sibling
\* tasks, the answer (elements, scores, order) is the one of the call run in list
\* order, every distinct candidate is in it exactly once (up to the cap), and
\* the store ends as in the run in list order
C22_SameAnswerForEveryCompletionOrder ==
    batch.phase = "answered" =>
        LET atomic == GET(batch.first, redisUp, now, tmdb, batch.type, batch.id, FALSE)
            all == IF batch.md = Thrown THEN <<>> ELSE AllRecommendations(batch.md)
        IN  /\ batchOut = atomic.resp
            /\ (tasks # <<>> /\ batchOut.status = 200) =>
                  /\ \A k \in 1 .. Len(tasks) : tasks[k].pc = "fulfilled"
                  /\ \A k \in 1 .. Len(all) :
                        Cardinality({j \in 1 .. Len(batchOut.results) :
                                        batchOut.results[j].id = all[k].id}) = 1
                  /\ \A j \in 1 .. Len(batchOut.results) :
                        \E k \in 1 .. Len(all) : all[k].id = batchOut.results[j].id
                  /\ cache = atomic.cache

\* a call answered from three tasks that completed in another order than listed
C22_Witness ==
    /\ batch.phase = "answered"
    /\ batchOut.status = 200
    /\ Len(settled) >= 3
    /\ settled[1] > settled[2]
    /\ \E j \in 1 .. Len(batchOut.results) : batchOut.results[j].score = JSNull
    /\ Len(batchOut.results) >= 2

-----------------------------------------------------------------------------
(* Properties of the scorers' components *)

\* the candidate dated a century after the seed: its year proximity is 0
DatedFarFrom(item1, item2) == [item2 EXCEPT !.year = YearOf(item1) + 100]

\* C23: a component is applied only when both the seed and the candidate carry
\* its data: when either has no release or first-air date, the year proximity
\* adds nothing to the weighted sum and its weight is not counted.
C23_UndatedAddsNoYearProximity ==
    (scoreOut.fn # "none" /\ (scoreSeed.year = 0 \/ scoreOut.item2.year = 0)) =>
        /\ scoreOut.fn = "route" =>
              /\ TotalScore(scoreSeed, scoreOut.item2, scoreOut.source)
                    = TotalScore(scoreSeed, DatedFarFrom(scoreSeed, scoreOut.item2),
                                 scoreOut.source)
              /\ AppliedWeights(scoreSeed, scoreOut.item2, scoreOut.source)
                    = AppliedWeights(scoreSeed, DatedFarFrom(scoreSeed, scoreOut.item2),
                                     scoreOut.source) - W_yearProximity
        /\ scoreOut.fn = "chain" =>
              /\ ChainSum(scoreSeed, scoreOut.item2).s
                    = ChainSum(scoreSeed, DatedFarFrom(scoreSeed, scoreOut.item2)).s
              /\ ChainSum(scoreSeed, scoreOut.item2).w
                    = ChainSum(scoreSeed, DatedFarFrom(scoreSeed, scoreOut.item2)).w - 15

-----------------------------------------------------------------------------
(* Properties of the merge by successive averaging *)

\* the occurrences of an id among the merged results, in encounter order
OccurrencesOf(id) == SelectSeq(FlatResults(seedResponses), LAMBDA e : e.id = id)

\* a sequence in the opposite order
Reversed(s) == [k \in 1 .. Len(s) |-> s[Len(s) + 1 - k]]

\* the sum of the scores of a sequence of results
RECURSIVE SumScores(_)
SumScores(s) == IF s = <<>> THEN 0 ELSE Num(Head(s).score) + SumScores(Tail(s))

\* what the claim says of one merged score, given the occurrences it stands for
SuccessiveAverage(score, occ) ==
    /\ score = RunningAverage(occ)
    /\ Len(occ) = 2 =>
          /\ 2 * score = SumScores(occ)
          /\ score = RunningAverage(Reversed(occ))
    /\ Len(occ) = 3 =>
          /\ 4 * score = occ[1].score + occ[2].score + 2 * occ[3].score
          /\ (score = RunningAverage(Reversed(occ))) <=> (occ[1].score = occ[3].score)
          /\ (3 * score = SumScores(occ))
                <=> (2 * occ[3].score = occ[1].score + occ[2].score)

\* C24: the merge by successive averaging gives two occurrences their mean, in
\* either order; with three occurrences the last one weighs a half and the two
\* before it a quarter each, so the merged score changes with the encounter
\* order unless the first and last scores agree, and it is the arithmetic mean
\* only when the last score is the mean of the two before it.
C24_SuccessiveAveragingDependsOnOrder ==
    /\ \A j \in 1 .. Len(merged) :
          SuccessiveAverage(merged[j].score, OccurrencesOf(merged[j].id))
    /\ \A j \in 1 .. Len(engineOut.list) :
          SuccessiveAverage(engineOut.list[j].score, OccurrencesOf(engineOut.list[j].id))

\* three occurrences merged by the client and by the engine to a score that is
\* neither the one of the opposite order nor the mean
C24_Witness ==
    /\ Len(merged) = 1 /\ Len(engineOut.list) = 1
    /\ Len(OccurrencesOf(1)) = 3
    /\ merged[1].score = engineOut.list[1].score
    /\ merged[1].score # RunningAverage(Reversed(OccurrencesOf(1)))
    /\ 3 * merged[1].score # SumScores(OccurrencesOf(1))

-----------------------------------------------------------------------------
(* Properties of the expiry of cache entries *)

\* the keys of one class
KeysOf(class) == {generateCacheKey(class, i[1], i[2]) : i \in Identities}

\* C25: every entry a call of the route writes gets a fresh expiry taken from
\* the TTL of its key class: a media entry the metadata TTL, a recommendations
\* entry the result TTL, which is the strictly smaller one; no other key is
\* written and no write uses another TTL.
C25_ExpiryFromTTLOfKeyClass ==
    [][calls' = calls + 1 =>
         /\ RECOMMENDATIONS_CACHE_TTL < MEDIA_CACHE_TTL
         /\ \A key \in DOMAIN cache' :
               \/ key \in DOMAIN cache /\ cache'[key] = cache[key]
               \/ key \in KeysOf("media")
                    /\ cache'[key].exp = now + MEDIA_CACHE_TTL
               \/ key \in KeysOf("recommendations")
                    /\ cache'[key].exp = now + RECOMMENDATIONS_CACHE_TTL
    ]_vars

\* a second call, a day after the first, has written the result again and a
\* candidate's metadata for the first time, next to metadata a week from expiry
C25_Witness ==
    /\ calls = 2
    /\ now = RECOMMENDATIONS_CACHE_TTL
    /\ \E key \in DOMAIN cache \cap KeysOf("recommendations") :
          cache[key].exp = now + RECOMMENDATIONS_CACHE_TTL
    /\ \E key \in DOMAIN cache \cap KeysOf("media") :
          cache[key].exp = now + MEDIA_CACHE_TTL
    /\ \E key \in DOMAIN cache \cap KeysOf("media") :
          cache[key].exp = MEDIA_CACHE_TTL

-----------------------------------------------------------------------------
(* Properties of the scoring weights *)

\* C26: the scoring weights are the constants 0.60, 0.20, 0.10, 0.05, 0.03,
\* 0.01 and 0.01; they sum to exactly 1.0, so the start-up check of the sum
\* reports no deviation; the weights a score applies are among them.
C26_WeightsSumToOne ==
    scoreOut.fn = "route" =>
        /\ <<W_directRecommendation, W_similar, W_genreMatch, W_thematicPattern,
             W_voteAverage, W_popularity, W_yearProximity>>
              = <<6000, 2000, 1000, 500, 300, 100, 100>>
        /\ TOTAL_WEIGHT = SCALE
        /\ ~WeightsWarning
        /\ AppliedWeights(scoreSeed, scoreOut.item2, scoreOut.source) <= TOTAL_WEIGHT

\* a candidate from the similar list scored with every other component applied
C26_Witness ==
    /\ scoreOut.fn = "route"
    /\ scoreOut.source = "similar"
    /\ AppliedWeights(scoreSeed, scoreOut.item2, scoreOut.source)
          = TOTAL_WEIGHT - W_directRecommendation

\* a sub-score that is a number between 0 and 1
InUnit(x) == x # NaN /\ 0 <= x /\ x <= SCALE

\* C27: every component sub-score that enters the route's weighted sum (genre
\* overlap, pattern overlap, Bayesian-shrunk rating, popularity adjustment,
\* year proximity) lies in [0, 1], so the unclamped sum never exceeds the
\* source weight plus the weights of the other applied components.
C27_SubScoresInUnitInterval ==
    scoreOut.fn = "route" =>
        LET item1 == scoreSeed
            item2 == scoreOut.item2
            rated == item2.va10 # 0 /\ item2.vc # 0
        IN  /\ (item1.hasGenres /\ item2.hasGenres) => InUnit(GenreScore(item1, item2))
            /\ (item1.hasPatterns /\ item2.hasPatterns)
                  => InUnit(PatternScore(item1, item2))
            /\ rated => InUnit(WeightedRating(item2))
            /\ (rated /\ item2.pop # 0) => InUnit(PopularityScore(item2))
            /\ InUnit(YearScore(item1, item2))
            /\ InUnit(TotalScore(item1, item2, scoreOut.source))
            /\ TotalScore(item1, item2, scoreOut.source)
                  <= AppliedWeights(item1, item2, scoreOut.source)

-----------------------------------------------------------------------------
(* Properties of the route's dedup *)

\* the scored candidates of the call, in list order
ScoredCandidates == [k \in 1 .. Len(tasks) |-> TaskValue(batch, tmdb, tasks[k])]

\* the positions at which id occurs among the scored candidates
PositionsOf(id) == {k \in 1 .. Len(tasks) : tasks[k].id = id}

\* the earliest occurrence of id that no other occurrence strictly exceeds
BestOf(id) ==
    CHOOSE i \in PositionsOf(id) :
        /\ \A j \in PositionsOf(id) :
              ~JSLess(ScoredCandidates[i].score, ScoredCandidates[j].score)
        /\ \A h \in PositionsOf(id) :
              h < i => \E j \in PositionsOf(id) :
                          JSLess(ScoredCandidates[h].score, ScoredCandidates[j].score)

\* C28: when an id occurs more than once among the scored candidates of a call,
\* the answer keeps exactly one entry for it: the occurrence with the strictly
\* highest score, the earliest one on a tie, with that occurrence's score and
\* recommendation source.
C28_DedupKeepsHighestEarliest ==
    (batch.phase = "answered" /\ batchOut.status = 200 /\ tasks # <<>>) =>
        \A k \in 1 .. Len(tasks) :
           LET kept == {j \in 1 .. Len(batchOut.results) :
                           batchOut.results[j].id = tasks[k].id}
               best == ScoredCandidates[BestOf(tasks[k].id)]
           IN  /\ Cardinality(kept) = 1
               /\ \A j \in kept :
                     /\ batchOut.results[j].score = ToJSON(best.score)
                     /\ batchOut.results[j].source = best.source
                     /\ \A i \in PositionsOf(tasks[k].id) :
                           ~JSLess(best.score, ScoredCandidates[i].score)

\* an answer for a seed one of whose candidates was scored on both paths, with
\* different scores, and is returned with the direct path's
C28_Witness ==
    /\ batch.phase = "answered" /\ batchOut.status = 200
    /\ \E k \in 1 .. Len(tasks) :
          /\ Cardinality(PositionsOf(tasks[k].id)) = 2
          /\ \E i \in PositionsOf(tasks[k].id) :
                JSLess(ScoredCandidates[i].score, ScoredCandidates[BestOf(tasks[k].id)].score)
          /\ \E j \in 1 .. Len(batchOut.results) :
                /\ batchOut.results[j].id = tasks[k].id
                /\ batchOut.results[j].source = "direct"

-----------------------------------------------------------------------------
(* Properties of the merged list's counts, scores and sort keys *)

\* the scores of a sequence of results, read as numbers
ScoresOf(occ) == {Num(occ[k].score) : k \in 1 .. Len(occ)}

\* C29: in the client's merge over the seeds' responses, every merged element
\* has a count between 1 and the number of seeds, a score between the lowest
\* and the highest of the per-seed scores merged into it, and so a sort key
\* 0.7 * score + 0.3 * count / seeds in [0, 1] whenever those per-seed scores
\* are in [0, 1].
C29_MergedCountScoreAndKeyBounded ==
    seedResponses # <<>> =>
        \A j \in 1 .. Len(merged) :
           LET occ == OccurrencesOf(merged[j].id)
               n == Len(seedResponses)
           IN  /\ merged[j].count = Len(occ)
               /\ 1 <= merged[j].count /\ merged[j].count <= n
               /\ \E lo \in ScoresOf(occ) : lo <= Num(merged[j].score)
               /\ \E hi \in ScoresOf(occ) : Num(merged[j].score) <= hi
               /\ (\A k \in 1 .. Len(occ) :
                      occ[k].score # JSNull /\ 0 <= occ[k].score /\ occ[k].score <= SCALE)
                     => /\ merged[j].score # JSNull
                        /\ 0 <= ClientKey(merged[j], n)
                        /\ ClientKey(merged[j], n) <= 10 * n * SCALE

\* two seeds returned the same id with different scores; it is merged with
\* count 2 and a score strictly between the two
C29_Witness ==
    /\ Len(seedResponses) = 2
    /\ \E j \in 1 .. Len(merged) :
          /\ merged[j].count = 2
          /\ \E lo, hi \in ScoresOf(OccurrencesOf(merged[j].id)) :
                lo < merged[j].score /\ merged[j].score < hi

-----------------------------------------------------------------------------
(* Properties of a partially failed metadata fetch *)

\* a list request of the identity failed: answered non-ok, or not answered
ListRequestFailed(db, type, id) ==
    LET e == db[<<type, id>>]
    IN  \/ ~e.recsOk \/ e.recsFault
        \/ type = "tv" /\ (~e.simOk \/ e.simFault)

\* fetched or cached details in which a candidate list is empty
SomeListEmpty(details) == details.recs = <<>> \/ details.similar = <<>>

\* C30: when the details request of an item succeeds and a recommendations or
\* similar request fails, fetchMediaDetails succeeds with that list empty, and
\* only a failed details request makes it fail; a call that fetched the seed
\* so writes it under the metadata TTL like a complete one; and a later call
\* without skipCache that finds the entry unexpired answers from it, as it
\* would were the item's metadata requests no longer answered.
C30_PartialFetchSucceedsAndIsCached ==
    [][(calls' = calls + 1 /\ <<request'.type, request'.id>> \in Identities) =>
         LET type == request'.type
             id == request'.id
             mediaKey == generateCacheKey("media", type, id)
             got == fetchMediaDetails(tmdb, type, id)
         IN  /\ (got = Thrown) <=> (tmdb[<<type, id>>].status # 200)
             /\ (got # Thrown /\ ListRequestFailed(tmdb, type, id))
                   => SomeListEmpty(got)
             /\ (/\ ~request'.skipCache /\ redisUp
                 /\ getCachedData(cache, redisUp, now, mediaKey) = Null
                 /\ tmdb[<<type, id>>].status = 200
                 /\ ListRequestFailed(tmdb, type, id))
                   => /\ mediaKey \in DOMAIN cache'
                      /\ cache'[mediaKey].exp = now + MEDIA_CACHE_TTL
                      /\ SomeListEmpty(cache'[mediaKey].val)
             /\ (/\ ~request'.skipCache
                 /\ mediaKey \in DOMAIN cache /\ now < cache[mediaKey].exp
                 /\ SomeListEmpty(cache[mediaKey].val))
                   => response' = GET(cache, redisUp, now,
                                      [tmdb EXCEPT ![<<type, id>>].recsFault = TRUE],
                                      type, id, FALSE).resp
    ]_vars

====
